---- MODULE Spec2Model ----
(***************************************************************************)
(* A model of the tfvisualizer backend: the project store with its         *)
(* versioned snapshots (app/routes/projects.py), the identity store's       *)
(* billing and trial fields (app/models/user.py), the subscription ledger   *)
(* driven by payment-processor webhooks (app/routes/webhooks.py,            *)
(* app/services/stripe_service.py) and the trial expiration sweep           *)
(* (app/utils/trial_utils.py).                                              *)
(*                                                                         *)
(* Identifiers the code draws as fresh UUIDs are drawn from counters, time  *)
(* is a small integer clock, and row timestamps (created_at, updated_at)    *)
(* are left out: no handler modelled here reads them.                       *)
(***************************************************************************)
EXTENDS Integers, Sequences, FiniteSets, TLC

VARIABLES
    users,          \* table users: id -> billing and trial columns
    projects,       \* table projects: set of rows
    nextProjectId,  \* the next fresh project id
    versions,       \* table project_versions: set of rows
    nextVersionId,  \* the next fresh project_versions id
    subs,           \* table subscriptions: set of rows
    payments,       \* table payment_history: set of rows
    stripe,         \* the payment processor's own subscription objects
    now,            \* datetime.utcnow()
    inflight,       \* per worker: the save request it is in the middle of
    resp,           \* the request being answered and its response; Idle once sent
    warningLog,     \* what the trial-warning task has logged: its runs, its warnings
    accounts        \* users rows: the identity columns (email, password_hash, oauth)

vars == <<users, projects, nextProjectId, versions, nextVersionId, subs,
          payments, stripe, now, inflight, resp, warningLog, accounts>>

(***************************************************************************)
(* Bounds of the model.                                                    *)
(***************************************************************************)
NumUsers == 2
MaxProjects == 1
MaxLimitProjects == 4
MaxVersions == 3
NumWorkers == 2
NumSubs == 1
NumPayments == 1
MaxTime == 1
\* the length of the trial the payment processor grants, in clock ticks
TrialTicks == 1

UserIds == 1..NumUsers
\* get_jwt_identity(): a token's identity, 0 being one no users row carries
CallerIds == 0..NumUsers
Workers == 1..NumWorkers
SubIds == 1..NumSubs
PaymentIds == 1..NumPayments
Times == 0..MaxTime

(***************************************************************************)
(* Program constants.                                                      *)
(***************************************************************************)
FREE_TIER_PROJECT_LIMIT == 3

\* a nullable column holding NULL
NULL == -1

Tiers == {"free", "pro"}
UserStatuses == {"inactive", "active", "trialing", "past_due", "canceled", "unpaid"}

(***************************************************************************)
(* Rows.                                                                   *)
(***************************************************************************)
NewUser ==
    [stripe_customer_id |-> NULL,
     subscription_tier |-> "free",
     subscription_status |-> "inactive",
     is_on_trial |-> FALSE,
     trial_start_date |-> NULL,
     trial_end_date |-> NULL]

\* a slot of the payment processor in which no subscription was made yet
NoSubscription ==
    [status |-> "none", customer |-> NULL, trial_start |-> NULL,
     trial_end |-> NULL, cancel_at_period_end |-> FALSE]

\* the log of the trial-warning task before its first run
NoWarnings == [runs |-> {}, sent |-> {}]

NewProject(id, user_id) == [id |-> id, user_id |-> user_id]

NewProjectVersion(id, project_id, version_number, state, created_by) ==
    [id |-> id,
     project_id |-> project_id,
     version_number |-> version_number,
     resources |-> state.resources,
     connections |-> state.connections,
     positions |-> state.positions,
     terraform_code |-> state.terraform_code,
     created_by |-> created_by]

(***************************************************************************)
(* Request bodies.  A JSON object is a function from its keys.             *)
(***************************************************************************)
Get(data, key, default) == IF key \in DOMAIN data THEN data[key] ELSE default

\* request.get_json() of a save request; <<>> is the empty object
SaveBodies ==
    { <<>>,
      [terraform_code |-> ""],
      [resources |-> <<1, 2>>, connections |-> <<1>>,
       positions |-> <<1, 2>>, terraform_code |-> "tf"] }

\* request.get_json() of a create request
CreateBodies == { <<>>, [description |-> "d"], [name |-> "Infra"] }

\* the four columns of a snapshot as save_project_state reads them
StateOf(data) ==
    [resources |-> Get(data, "resources", <<>>),
     connections |-> Get(data, "connections", <<>>),
     positions |-> Get(data, "positions", <<>>),
     terraform_code |-> Get(data, "terraform_code", "")]

\* the 'state' object of a load response
VersionState(v) ==
    [resources |-> v.resources,
     connections |-> v.connections,
     positions |-> v.positions,
     terraform_code |-> v.terraform_code]

\* the literal load_project_state answers with when there is no version
EmptyState ==
    [resources |-> <<>>, connections |-> <<>>, positions |-> <<>>,
     terraform_code |-> ""]

(***************************************************************************)
(* Queries.                                                                *)
(***************************************************************************)
\* Project.query.get(project_id): the set holding the row, or {}
ProjectGet(project_id) == {p \in projects : p.id = project_id}

\* ProjectVersion.query.filter_by(project_id=...)
VersionsOf(project_id) == {v \in versions : v.project_id = project_id}

\* .order_by(version_number.desc()).first(): the rows it may return
LatestVersions(project_id) ==
    {v \in VersionsOf(project_id) :
        \A w \in VersionsOf(project_id) : w.version_number <= v.version_number}

\* .order_by(version_number.desc()).all(): the orders it may return
OrderedDesc(rows) ==
    {s \in [1..Cardinality(rows) -> rows] :
        /\ \A i, j \in DOMAIN s : i < j => s[i].version_number >= s[j].version_number
        /\ \A i, j \in DOMAIN s : s[i] = s[j] => i = j}

\* User.is_trial_active
IsTrialActive(u) ==
    IF ~u.is_on_trial \/ u.trial_end_date = NULL THEN FALSE
    ELSE now < u.trial_end_date

\* user.projects.count()
ProjectCount(user_id) == Cardinality({p \in projects : p.user_id = user_id})

\* can_create_project comparing with <= : a free user gets one project more
CanCreateProjectOffByOne(user_id) ==
    IF users[user_id].subscription_tier = "pro" \/ IsTrialActive(users[user_id])
    THEN TRUE
    ELSE ProjectCount(user_id) <= FREE_TIER_PROJECT_LIMIT

\* User.can_create_project
CanCreateProject(user_id) ==
    IF users[user_id].subscription_tier = "pro" \/ IsTrialActive(users[user_id])
    THEN TRUE
    ELSE ProjectCount(user_id) < FREE_TIER_PROJECT_LIMIT

(***************************************************************************)
(* Responses.  A response record carries the request it answers (req).      *)
(***************************************************************************)
Error(op, req, status, msg) ==
    [op |-> op, req |-> req, status |-> status, error |-> msg]

Idle == [op |-> "idle"]

\* the gate without its ownership check
GateNoOwnerCheck(op, req) ==
    IF ProjectGet(req.project_id) = {}
    THEN Error(op, req, 404, "Project not found")
    ELSE [op |-> op, req |-> req, status |-> 200, error |-> ""]

\* the ownership gate every /<project_id> handler starts with: the error it
\* answers with, or a pass (status 200, no error)
Gate(op, req) ==
    IF ProjectGet(req.project_id) = {}
    THEN Error(op, req, 404, "Project not found")
    ELSE IF (CHOOSE p \in ProjectGet(req.project_id) : TRUE).user_id # req.caller
         THEN Error(op, req, 403, "Unauthorized")
         ELSE [op |-> op, req |-> req, status |-> 200, error |-> ""]

UnchangedBilling == UNCHANGED <<users, subs, payments, stripe>>
UnchangedProjects == UNCHANGED <<projects, nextProjectId, versions, nextVersionId>>

(***************************************************************************)
(* Project CRUD.                                                           *)
(***************************************************************************)
ListProjects(caller) ==
    /\ resp' = IF caller \notin UserIds
               THEN Error("list_projects", [caller |-> caller], 404, "User not found")
               ELSE [op |-> "list_projects", req |-> [caller |-> caller],
                     status |-> 200,
                     projects |-> {p \in projects : p.user_id = caller}]
    /\ UnchangedProjects /\ UnchangedBilling /\ UNCHANGED <<now, inflight, warningLog, accounts>>

\* the 201 path is open while a fresh id is left under the bound maxProjects
CreateProject(caller, data, maxProjects) ==
    LET req == [caller |-> caller, data |-> data] IN
    /\ IF caller \notin UserIds
       THEN /\ resp' = Error("create_project", req, 404, "User not found")
            /\ UNCHANGED <<projects, nextProjectId>>
       ELSE IF ~CanCreateProject(caller)
       THEN /\ resp' = Error("create_project", req, 403, "Project limit reached")
            /\ UNCHANGED <<projects, nextProjectId>>
       ELSE IF data = <<>> \/ "name" \notin DOMAIN data
       THEN /\ resp' = Error("create_project", req, 400, "Project name is required")
            /\ UNCHANGED <<projects, nextProjectId>>
       ELSE /\ nextProjectId <= maxProjects
            /\ projects' = projects \cup {NewProject(nextProjectId, caller)}
            /\ nextProjectId' = nextProjectId + 1
            /\ resp' = [op |-> "create_project", req |-> req, status |-> 201,
                        project |-> NewProject(nextProjectId, caller)]
    /\ UNCHANGED <<versions, nextVersionId>>
    /\ UnchangedBilling /\ UNCHANGED <<now, inflight, warningLog, accounts>>

GetProject(caller, project_id) ==
    LET req == [caller |-> caller, project_id |-> project_id] IN
    /\ resp' = IF Gate("get_project", req).status # 200
               THEN Gate("get_project", req)
               ELSE [op |-> "get_project", req |-> req, status |-> 200,
                     project |-> CHOOSE p \in ProjectGet(project_id) : TRUE]
    /\ UnchangedProjects /\ UnchangedBilling /\ UNCHANGED <<now, inflight, warningLog, accounts>>

\* db.session.delete(project): the relationship's cascade deletes the versions
DeleteProject(caller, project_id) ==
    LET req == [caller |-> caller, project_id |-> project_id] IN
    /\ IF Gate("delete_project", req).status # 200
       THEN /\ resp' = Gate("delete_project", req)
            /\ UNCHANGED <<projects, versions>>
       ELSE /\ projects' = projects \ ProjectGet(project_id)
            /\ versions' = versions \ VersionsOf(project_id)
            /\ resp' = [op |-> "delete_project", req |-> req, status |-> 200,
                        message |-> "Project deleted successfully"]
    /\ UNCHANGED <<nextProjectId, nextVersionId>>
    /\ UnchangedBilling /\ UNCHANGED <<now, inflight, warningLog, accounts>>

(***************************************************************************)
(* Versioning.                                                             *)
(***************************************************************************)
\* what save_project_state answers before it touches project_versions
SaveCheck(req) ==
    IF Gate("save", req).status # 200 THEN Gate("save", req)
    ELSE IF req.data = <<>> THEN Error("save", req, 400, "No data provided")
    ELSE [op |-> "save", req |-> req, status |-> 200, error |-> ""]

\* next_version without the increment
NextVersionNoIncrement(latest) ==
    IF latest = {} THEN 1
    ELSE (CHOOSE v \in latest : TRUE).version_number

\* next_version, given the row .first() returned (or none)
NextVersion(latest) ==
    IF latest = {} THEN 1
    ELSE (CHOOSE v \in latest : TRUE).version_number + 1

\* what .first() may return for the project: {} or a one-row set
FirstLatest(project_id) ==
    IF VersionsOf(project_id) = {} THEN {{}}
    ELSE {{v} : v \in LatestVersions(project_id)}

\* db.session.add(version); db.session.commit().  project_versions carries
\* the foreign key to projects and no other constraint.
InsertVersion(req, next_version) ==
    IF ProjectGet(req.project_id) = {}
    THEN /\ resp' = Error("save", req, 500, "Failed to save project state")
         /\ UNCHANGED <<versions, nextVersionId>>
    ELSE LET version == NewProjectVersion(nextVersionId, req.project_id,
                            next_version, StateOf(req.data), req.caller)
         IN  /\ versions' = versions \cup {version}
             /\ nextVersionId' = nextVersionId + 1
             /\ resp' = [op |-> "save", req |-> req, status |-> 201,
                         version |-> version]

\* one save request handled with no other request in between
SaveProjectState(caller, project_id, data) ==
    LET req == [caller |-> caller, project_id |-> project_id, data |-> data] IN
    /\ IF SaveCheck(req).status # 200
       THEN /\ resp' = SaveCheck(req)
            /\ UNCHANGED <<versions, nextVersionId>>
       ELSE /\ nextVersionId <= MaxVersions
            /\ \E latest \in FirstLatest(project_id) :
                  InsertVersion(req, NextVersion(latest))
    /\ UNCHANGED <<projects, nextProjectId>>
    /\ UnchangedBilling /\ UNCHANGED <<now, inflight, warningLog, accounts>>

\* a worker runs a save request up to and including the query for the latest
\* version
SaveBegin(w, caller, project_id, data) ==
    LET req == [caller |-> caller, project_id |-> project_id, data |-> data] IN
    /\ inflight[w] = Idle
    /\ IF SaveCheck(req).status # 200
       THEN /\ resp' = SaveCheck(req)
            /\ UNCHANGED inflight
       ELSE /\ nextVersionId + Cardinality({x \in Workers : inflight[x] # Idle})
                 <= MaxVersions
            /\ \E latest \in FirstLatest(project_id) :
                  inflight' = [inflight EXCEPT ![w] =
                      [op |-> "save", req |-> req,
                       next_version |-> NextVersion(latest)]]
            /\ UNCHANGED resp
    /\ UnchangedProjects /\ UnchangedBilling /\ UNCHANGED <<now, warningLog, accounts>>

\* the worker goes on: it builds the row, adds it and commits
SaveCommit(w) ==
    /\ inflight[w] # Idle
    /\ InsertVersion(inflight[w].req, inflight[w].next_version)
    /\ inflight' = [inflight EXCEPT ![w] = Idle]
    /\ UNCHANGED <<projects, nextProjectId>>
    /\ UnchangedBilling /\ UNCHANGED <<now, warningLog, accounts>>

\* the responses load_project_state may give (one per row .first() may return)
LoadResponses(req) ==
    IF Gate("load", req).status # 200 THEN {Gate("load", req)}
    ELSE IF VersionsOf(req.project_id) = {}
    THEN {[op |-> "load", req |-> req, status |-> 200, state |-> EmptyState]}
    ELSE {[op |-> "load", req |-> req, status |-> 200,
           state |-> VersionState(latest_version),
           version |-> latest_version.version_number] :
              latest_version \in LatestVersions(req.project_id)}

LoadProjectState(caller, project_id) ==
    /\ resp' \in LoadResponses([caller |-> caller, project_id |-> project_id])
    /\ UnchangedProjects /\ UnchangedBilling /\ UNCHANGED <<now, inflight, warningLog, accounts>>

\* one entry of the list list_versions returns
VersionInfo(v) ==
    [id |-> v.id, version_number |-> v.version_number,
     created_by |-> v.created_by, resource_count |-> Len(v.resources)]

ListVersions(caller, project_id) ==
    LET req == [caller |-> caller, project_id |-> project_id] IN
    /\ IF Gate("list_versions", req).status # 200
       THEN resp' = Gate("list_versions", req)
       ELSE \E vs \in OrderedDesc(VersionsOf(project_id)) :
               resp' = [op |-> "list_versions", req |-> req, status |-> 200,
                        versions |-> [i \in DOMAIN vs |-> VersionInfo(vs[i])]]
    /\ UnchangedProjects /\ UnchangedBilling /\ UNCHANGED <<now, inflight, warningLog, accounts>>

\* load_specific_version falling back to the empty state for a missing version
LoadSpecificVersionOrEmpty(caller, project_id, version_number) ==
    LET req == [caller |-> caller, project_id |-> project_id,
                version_number |-> version_number]
        found == {v \in VersionsOf(project_id) : v.version_number = version_number}
    IN
    /\ IF Gate("load_version", req).status # 200
       THEN resp' = Gate("load_version", req)
       ELSE IF found = {}
       THEN resp' = [op |-> "load_version", req |-> req, status |-> 200,
                     state |-> EmptyState]
       ELSE \E version \in found :
               resp' = [op |-> "load_version", req |-> req, status |-> 200,
                        state |-> VersionState(version),
                        version |-> version.version_number]
    /\ UnchangedProjects /\ UnchangedBilling /\ UNCHANGED <<now, inflight, warningLog, accounts>>

LoadSpecificVersion(caller, project_id, version_number) ==
    LET req == [caller |-> caller, project_id |-> project_id,
                version_number |-> version_number]
        found == {v \in VersionsOf(project_id) : v.version_number = version_number}
    IN
    /\ IF Gate("load_version", req).status # 200
       THEN resp' = Gate("load_version", req)
       ELSE IF found = {}
       THEN resp' = Error("load_version", req, 404, "Version not found")
       ELSE \E version \in found :
               resp' = [op |-> "load_version", req |-> req, status |-> 200,
                        state |-> VersionState(version),
                        version |-> version.version_number]
    /\ UnchangedProjects /\ UnchangedBilling /\ UNCHANGED <<now, inflight, warningLog, accounts>>

\* the response has been sent; the server waits for the next request
Respond ==
    /\ resp # Idle
    /\ resp' = Idle
    /\ UnchangedProjects /\ UnchangedBilling /\ UNCHANGED <<now, inflight, warningLog, accounts>>

(***************************************************************************)
(* The state after construction: db.create_all() and the registered users.  *)
(***************************************************************************)
Init ==
    /\ users = [u \in UserIds |-> NewUser]
    /\ projects = {}
    /\ nextProjectId = 1
    /\ versions = {}
    /\ nextVersionId = 1
    /\ subs = {}
    /\ payments = {}
    /\ stripe = [s \in SubIds |-> NoSubscription]
    /\ now = 0
    /\ inflight = [w \in Workers |-> Idle]
    /\ resp = Idle
    /\ warningLog = NoWarnings
    /\ accounts = {}

VersionNumbers == 1..(MaxVersions + 1)
ProjectIds == 1..MaxProjects

(***************************************************************************)
(* The project API, one request handled to completion before the next.      *)
(***************************************************************************)
ProjectsRequest ==
    \/ \E caller \in CallerIds : ListProjects(caller)
    \/ \E caller \in CallerIds, data \in CreateBodies :
          CreateProject(caller, data, MaxProjects)
    \/ \E caller \in UserIds, p \in ProjectIds : GetProject(caller, p)
    \/ \E caller \in UserIds, p \in ProjectIds : DeleteProject(caller, p)
    \/ \E caller \in UserIds, p \in ProjectIds, data \in SaveBodies :
          SaveProjectState(caller, p, data)
    \/ \E caller \in UserIds, p \in ProjectIds : LoadProjectState(caller, p)
    \/ \E caller \in UserIds, p \in ProjectIds : ListVersions(caller, p)
    \/ \E caller \in UserIds, p \in ProjectIds, n \in VersionNumbers :
          LoadSpecificVersion(caller, p, n)

ProjectsNext ==
    \/ resp = Idle /\ ProjectsRequest
    \/ Respond

Spec == Init /\ [][ProjectsNext]_vars

(***************************************************************************)
(* Save requests of several workers interleaving on the shared store.       *)
(***************************************************************************)
ConcurrentSaveNext ==
    \/ \E caller \in UserIds, data \in CreateBodies :
          CreateProject(caller, data, MaxProjects)
    \/ \E caller \in UserIds, p \in ProjectIds : DeleteProject(caller, p)
    \/ \E w \in Workers, caller \in UserIds, p \in ProjectIds, data \in SaveBodies :
          SaveBegin(w, caller, p, data)
    \/ \E w \in Workers : SaveCommit(w)

SpecConcurrentSave == Init /\ [][ConcurrentSaveNext]_vars

(***************************************************************************)
(* C1.  After N successful saves of a project, handled one after another,   *)
(* its stored versions are numbered exactly 1..N, each save having added    *)
(* one row numbered one more than the rows before it and holding the        *)
(* request's snapshot, and load-latest answers with version N and its       *)
(* snapshot.                                                                *)
(***************************************************************************)
C1_Numbered ==
    \A p \in projects :
        LET rows == VersionsOf(p.id)
            N == Cardinality(rows)
        IN  /\ {v.version_number : v \in rows} = 1..N
            /\ N > 0 =>
                 \A r \in LoadResponses([caller |-> p.user_id, project_id |-> p.id]) :
                    /\ r.status = 200
                    /\ "version" \in DOMAIN r /\ r.version = N
                    /\ \E v \in rows :
                          /\ v.version_number = N
                          /\ r.state.resources = v.resources
                          /\ r.state.connections = v.connections
                          /\ r.state.positions = v.positions
                          /\ r.state.terraform_code = v.terraform_code

C1_Loaded ==
    (resp.op = "load" /\ resp.status = 200) =>
        LET rows == {v \in versions : v.project_id = resp.req.project_id}
            N == Cardinality(rows)
        IN  N > 0 => /\ "version" \in DOMAIN resp /\ resp.version = N
                     /\ \E v \in rows : /\ v.version_number = N
                                        /\ resp.state.resources = v.resources
                                        /\ resp.state.terraform_code = v.terraform_code

C1_SaveStep ==
    (resp'.op = "save" /\ resp'.status = 201) =>
        LET p == resp'.req.project_id
            data == resp'.req.data
        IN  \E v \in versions' :
               /\ v \notin versions /\ versions' = versions \cup {v}
               /\ v.project_id = p
               /\ v.version_number = Cardinality({w \in versions : w.project_id = p}) + 1
               /\ v.resources = (IF "resources" \in DOMAIN data
                                 THEN data.resources ELSE <<>>)
               /\ v.terraform_code = (IF "terraform_code" \in DOMAIN data
                                      THEN data.terraform_code ELSE "")
               /\ resp'.version = v

C1_SequentialSaves == [](C1_Numbered /\ C1_Loaded) /\ [][C1_SaveStep]_vars

\* three saves of one project, then load-latest answering version 3
C1_Witness ==
    /\ resp.op = "load" /\ resp.status = 200
    /\ "version" \in DOMAIN resp /\ resp.version = 3
    /\ \E p \in projects : Cardinality(VersionsOf(p.id)) = 3

(***************************************************************************)
(* C2.  No project ever has two project_versions rows with the same         *)
(* version_number, also when save requests interleave.                      *)
(***************************************************************************)
C2_UniqueVersionNumbers ==
    \A v, w \in versions :
        (v.project_id = w.project_id /\ v.version_number = w.version_number)
            => v = w

(***************************************************************************)
(* Project creation against the free-tier limit.  The billing columns of    *)
(* user 1 start in any of the states the subscription handlers leave them   *)
(* in; the clock runs, so a trial that is active can end.                   *)
(***************************************************************************)
Tick ==
    /\ now < MaxTime
    /\ now' = now + 1
    /\ UnchangedProjects /\ UnchangedBilling /\ UNCHANGED <<inflight, resp, warningLog, accounts>>

InitLimit ==
    /\ \E tier \in Tiers, trial \in BOOLEAN, trial_end \in {NULL} \cup (1..MaxTime) :
          users = [u \in UserIds |->
                     IF u = 1
                     THEN [NewUser EXCEPT !.subscription_tier = tier,
                                          !.is_on_trial = trial,
                                          !.trial_end_date = trial_end]
                     ELSE NewUser]
    /\ projects = {}
    /\ nextProjectId = 1
    /\ versions = {}
    /\ nextVersionId = 1
    /\ subs = {}
    /\ payments = {}
    /\ stripe = [s \in SubIds |-> NoSubscription]
    /\ now = 0
    /\ inflight = [w \in Workers |-> Idle]
    /\ resp = Idle
    /\ warningLog = NoWarnings
    /\ accounts = {}

LimitProjectIds == 1..MaxLimitProjects

LimitNext ==
    \/ /\ resp = Idle
       /\ \/ \E caller \in UserIds, data \in CreateBodies :
                CreateProject(caller, data, MaxLimitProjects)
          \/ \E caller \in UserIds, p \in LimitProjectIds : DeleteProject(caller, p)
          \/ Tick
    \/ Respond

SpecLimit == InitLimit /\ [][LimitNext]_vars

(***************************************************************************)
(* C3.  A create request of a free-tier user with no active trial succeeds  *)
(* while the user owns fewer projects than the limit (3) and, once the user *)
(* owns the limit, is rejected with the limit error and adds no project.  A *)
(* create request of a pro user, or of a user whose trial flag is set and   *)
(* whose trial_end_date is in the future, is never rejected for the limit.  *)
(***************************************************************************)
C3_CreateStep ==
    (resp'.op = "create_project" /\ resp'.req.caller \in UserIds) =>
        LET caller == resp'.req.caller
            data == resp'.req.data
            u == users[caller]
            owned == Cardinality({p \in projects : p.user_id = caller})
            trialing == u.is_on_trial /\ u.trial_end_date # NULL
                           /\ now < u.trial_end_date
            limited == resp'.status = 403
        IN  /\ (u.subscription_tier = "free" /\ ~trialing /\ owned >= 3) =>
                  /\ limited /\ resp'.error = "Project limit reached"
                  /\ projects' = projects
            /\ (u.subscription_tier = "free" /\ ~trialing /\ owned < 3) =>
                  /\ ~limited
                  /\ "name" \in DOMAIN data =>
                        /\ resp'.status = 201
                        /\ \E p \in projects' \ projects :
                              /\ projects' = projects \cup {p}
                              /\ p.user_id = caller
            /\ (u.subscription_tier = "pro" \/ trialing) => ~limited

C3_FreeTierLimit == [][C3_CreateStep]_vars

\* a free user without trial owns three projects and was just refused a fourth
C3_Witness ==
    /\ resp.op = "create_project" /\ resp.status = 403
    /\ LET u == resp.req.caller
       IN  /\ users[u].subscription_tier = "free" /\ ~users[u].is_on_trial
           /\ Cardinality({p \in projects : p.user_id = u}) = 3

(***************************************************************************)
(* C8.  Each of get, delete, save, load latest, list versions and load      *)
(* specific version answers 403 when the project exists and the caller is   *)
(* not its owner, with no project or version data in the answer and the     *)
(* project and its versions left as they were, and 404 when the project     *)
(* does not exist.                                                          *)
(***************************************************************************)
C8_Operations ==
    {"get_project", "delete_project", "save", "load", "list_versions",
     "load_version"}

C8_Step ==
    (resp = Idle /\ resp'.op \in C8_Operations) =>
        LET caller == resp'.req.caller
            p == resp'.req.project_id
        IN  /\ (\E row \in projects : row.id = p /\ row.user_id # caller) =>
                  /\ resp'.status = 403
                  /\ DOMAIN resp' = {"op", "req", "status", "error"}
                  /\ projects' = projects /\ versions' = versions
            /\ (\A row \in projects : row.id # p) =>
                  /\ resp'.status = 404
                  /\ DOMAIN resp' = {"op", "req", "status", "error"}
                  /\ projects' = projects /\ versions' = versions

C8_OwnerOnly == [][C8_Step]_vars

\* a save by a user who does not own a project that has versions was refused
C8_Witness ==
    /\ resp.op = "save" /\ resp.status = 403
    /\ \E v \in versions : v.project_id = resp.req.project_id

(***************************************************************************)
(* C9.  Loading a version number an owned project does not have answers     *)
(* 404 and carries no snapshot.  The empty-state answer (a 200 whose state  *)
(* is the empty snapshot and that names no version) is given only by        *)
(* load-latest and only for a project with no versions.                     *)
(***************************************************************************)
C9_IsSentinel(r) ==
    /\ r.status = 200
    /\ "state" \in DOMAIN r /\ "version" \notin DOMAIN r

C9_MissingVersion ==
    (/\ resp.op = "load_version"
     /\ \E row \in projects : row.id = resp.req.project_id
                                 /\ row.user_id = resp.req.caller
     /\ \A v \in versions : ~(/\ v.project_id = resp.req.project_id
                              /\ v.version_number = resp.req.version_number))
    => /\ resp.status = 404
       /\ "state" \notin DOMAIN resp

C9_SentinelOnlyWhenEmpty ==
    /\ (resp.op # "idle" /\ C9_IsSentinel(resp)) =>
          /\ resp.op = "load"
          /\ \A v \in versions : v.project_id # resp.req.project_id
          /\ resp.state.resources = <<>> /\ resp.state.connections = <<>>
          /\ resp.state.positions = <<>> /\ resp.state.terraform_code = ""
    /\ (resp.op \in {"load", "load_version"} /\ resp.status = 200
           /\ ~C9_IsSentinel(resp)) =>
          \E v \in versions :
             /\ v.project_id = resp.req.project_id
             /\ v.version_number = resp.version
             /\ resp.state.resources = v.resources
             /\ resp.state.terraform_code = v.terraform_code

C9_NoDefaultSnapshot == C9_MissingVersion /\ C9_SentinelOnlyWhenEmpty

\* version 2 of an owned project that has one version, saved with every
\* field at its default, was asked for
C9_Witness ==
    /\ resp.op = "load_version" /\ resp.status = 404
    /\ resp.error = "Version not found"
    /\ \E v \in versions : /\ v.project_id = resp.req.project_id
                           /\ v.version_number = 1 /\ v.resources = <<>>

(***************************************************************************)
(* The SQLAlchemy session of one request or task: the rows as committed,    *)
(* the rows as the handler sees them (its uncommitted changes applied), the *)
(* attribute assignments and inserts issued since the unit began, whether   *)
(* an except clause logged an error, and the reconciliations invoked.       *)
(***************************************************************************)
Tables == [users |-> users, subs |-> subs, payments |-> payments]

Session ==
    [committed |-> Tables, pending |-> Tables, integrity |-> FALSE,
     writes |-> <<>>, error |-> FALSE, syncs |-> <<>>]

\* user.<field> = value
SetUser(s, u, field, value) ==
    [s EXCEPT !.pending.users[u][field] = value,
              !.writes = Append(@, <<"users", u, field, value>>)]

\* subscription.<field> = value, on the row of stripe_subscription_id sid
SetSub(s, sid, field, value) ==
    [s EXCEPT !.pending.subs =
                  {IF r.stripe_subscription_id = sid
                   THEN [r EXCEPT ![field] = value] ELSE r : r \in @},
              !.writes = Append(@, <<"subscriptions", sid, field, value>>)]

\* db.session.add(subscription) on a table without the unique constraint
AddSubNotUnique(s, row) ==
    [s EXCEPT !.pending.subs = @ \cup {row},
              !.writes = Append(@, <<"subscriptions",
                                     row.stripe_subscription_id, "INSERT", row>>)]

\* db.session.add(subscription); stripe_subscription_id is unique
AddSub(s, row) ==
    [s EXCEPT !.pending.subs = @ \cup {row},
              !.integrity = @ \/ \E r \in s.pending.subs :
                  r.stripe_subscription_id = row.stripe_subscription_id,
              !.writes = Append(@, <<"subscriptions",
                                     row.stripe_subscription_id, "INSERT", row>>)]

\* db.session.add(payment) on a table without the unique constraint
AddPaymentNotUnique(s, row) ==
    [s EXCEPT !.pending.payments = @ \cup {row},
              !.integrity = @ \/ row.user_id \notin UserIds,
              !.writes = Append(@, <<"payment_history",
                                     row.stripe_payment_intent_id, "INSERT", row>>)]

\* db.session.add(payment); stripe_payment_intent_id is unique and user_id
\* references users.id
AddPayment(s, row) ==
    [s EXCEPT !.pending.payments = @ \cup {row},
              !.integrity = @ \/ row.user_id \notin UserIds
                  \/ \E r \in s.pending.payments :
                        r.stripe_payment_intent_id = row.stripe_payment_intent_id,
              !.writes = Append(@, <<"payment_history",
                                     row.stripe_payment_intent_id, "INSERT", row>>)]

\* a rollback that leaves the uncommitted changes in the session
RollbackKeepsPending(s) == s

\* db.session.rollback()
Rollback(s) == [s EXCEPT !.pending = s.committed, !.integrity = FALSE]

\* except Exception as e: logger.error(...); db.session.rollback()
Except(s) == Rollback([s EXCEPT !.error = TRUE])

\* db.session.commit() inside a try whose except clause is Except
Commit(s) ==
    IF s.integrity THEN Except(s)
    ELSE [s EXCEPT !.committed = s.pending]

\* the part of a response that tells what one unit of work did
UnitOf(s) == [writes |-> s.writes, error |-> s.error, syncs |-> s.syncs]

\* the same session going on to the next unit of work
NextUnit(s) == [s EXCEPT !.writes = <<>>, !.error = FALSE, !.syncs = <<>>]

Store(s) ==
    /\ users' = s.committed.users
    /\ subs' = s.committed.subs
    /\ payments' = s.committed.payments

(***************************************************************************)
(* The payment processor.                                                   *)
(***************************************************************************)
\* the statuses of a subscription object, "incomplete" standing for every
\* status no handler names
SubscriptionStatuses ==
    {"trialing", "active", "past_due", "unpaid", "canceled", "incomplete"}

\* the subscriptions the processor holds
Made == {s \in SubIds : stripe[s].status # "none"}

\* the processor holding a subscription for a user the application made no
\* customer for
StripeSubscribeWithoutCustomer(s, u) ==
    /\ stripe[s].status = "none"
    /\ stripe' = [stripe EXCEPT ![s] =
                     [status |-> "trialing",
                      customer |-> u,
                      trial_start |-> now, trial_end |-> now + TrialTicks,
                      cancel_at_period_end |-> FALSE]]
    /\ UnchangedProjects
    /\ UNCHANGED <<users, subs, payments, now, inflight, resp, warningLog, accounts>>

\* a customer completes the checkout the session was created for: the
\* processor makes the subscription, with the trial of subscription_data
StripeSubscribe(s, u) ==
    /\ stripe[s].status = "none"
    /\ users[u].stripe_customer_id # NULL
    /\ stripe' = [stripe EXCEPT ![s] =
                     [status |-> "trialing",
                      customer |-> users[u].stripe_customer_id,
                      trial_start |-> now, trial_end |-> now + TrialTicks,
                      cancel_at_period_end |-> FALSE]]
    /\ UnchangedProjects
    /\ UNCHANGED <<users, subs, payments, now, inflight, resp, warningLog, accounts>>

\* the processor moves a subscription on: the trial converts, a payment
\* fails or is recovered, the subscription is paused or ends
StripeUpdate(s, status) ==
    /\ stripe[s].status \notin {"none", "canceled", status}
    /\ status \in SubscriptionStatuses \ {"trialing"}
    /\ stripe' = [stripe EXCEPT ![s].status = status]
    /\ UnchangedProjects
    /\ UNCHANGED <<users, subs, payments, now, inflight, resp, warningLog, accounts>>

\* the subscription object an event about s carries; an event may be
\* delivered late, so its status is not tied to the processor's current one
SubscriptionObject(s, status) ==
    [id |-> s,
     metadata |-> [user_id |-> stripe[s].customer],
     status |-> status,
     current_period_start |-> stripe[s].trial_start,
     current_period_end |-> stripe[s].trial_end,
     trial_end |-> stripe[s].trial_end,
     cancel_at_period_end |-> stripe[s].cancel_at_period_end]

\* payment_intent objects: with or without user_id in their metadata
PaymentObjects ==
    {[id |-> i, metadata |-> m, amount |-> 1999] :
        i \in PaymentIds,
        m \in {<<>>} \cup {[user_id |-> u] : u \in UserIds}}

\* the events about subscriptions and checkouts the processor may post
LifecycleEvents ==
    {[type |-> "customer.subscription.created",
      object |-> SubscriptionObject(s, st)] :
          s \in Made, st \in {"trialing", "active", "incomplete"}}
    \cup {[type |-> "customer.subscription.updated",
           object |-> SubscriptionObject(s, st)] :
              s \in Made, st \in SubscriptionStatuses}
    \cup {[type |-> "customer.subscription.deleted",
           object |-> SubscriptionObject(s, "canceled")] : s \in Made}
    \cup {[type |-> "checkout.session.completed",
           object |-> [id |-> s,
                       metadata |-> [user_id |-> stripe[s].customer],
                       mode |-> "subscription", subscription |-> s]] :
              s \in Made}

\* every event the processor may post
Events ==
    LifecycleEvents
    \cup {[type |-> t, object |-> o] :
              t \in {"payment_intent.succeeded", "payment_intent.payment_failed"},
              o \in PaymentObjects}
    \cup {[type |-> t, object |-> [id |-> 1]] :
              t \in {"invoice.payment_succeeded", "invoice.payment_failed",
                     "customer.created"}}

\* whether a call to the processor made while handling the event raises
GatewayOutcomes(event) ==
    IF event.type = "checkout.session.completed" THEN {"ok", "error"} ELSE {"ok"}

\* what stripe.Subscription.list(customer=...) may lead the loop of
\* sync_user_subscription to: "error" when the call raises, else the status
\* of the first active or trialing subscription listed, or "none"
ListOutcomes(customer) ==
    LET live == {stripe[s].status : s \in {x \in Made :
                    /\ stripe[x].customer = customer
                    /\ stripe[x].status \in {"active", "trialing"}}}
    IN  {"error"} \cup (IF live = {} THEN {"none"} ELSE live)

(***************************************************************************)
(* StripeService: the event handlers and reconciliation.                    *)
(***************************************************************************)
SubRow(s, sid) ==
    {r \in s.pending.subs : r.stripe_subscription_id = sid}

HandleSubscriptionCreated(s, obj) ==
    LET user_id == obj.metadata.user_id
        subscription == [user_id |-> user_id,
                         stripe_subscription_id |-> obj.id,
                         status |-> obj.status,
                         current_period_start |-> obj.current_period_start,
                         current_period_end |-> obj.current_period_end,
                         cancel_at_period_end |-> obj.cancel_at_period_end]
    IN  IF user_id = NULL THEN [s EXCEPT !.error = TRUE]
        ELSE IF user_id \notin UserIds THEN [s EXCEPT !.error = TRUE]
        ELSE Commit(AddSub(
                 SetUser(SetUser(s, user_id, "subscription_tier", "pro"),
                         user_id, "subscription_status", "active"),
                 subscription))

HandleSubscriptionUpdated(s, obj) ==
    IF SubRow(s, obj.id) = {} THEN s
    ELSE
    LET user == (CHOOSE r \in SubRow(s, obj.id) : TRUE).user_id
        s1 == SetSub(SetSub(SetSub(SetSub(s, obj.id, "status", obj.status),
                         obj.id, "current_period_start", obj.current_period_start),
                         obj.id, "current_period_end", obj.current_period_end),
                     obj.id, "cancel_at_period_end", obj.cancel_at_period_end)
        s2 == IF obj.status = "trialing"
              THEN LET t == SetUser(SetUser(s1, user, "subscription_status", "trialing"),
                                    user, "is_on_trial", TRUE)
                   IN  IF obj.trial_end # NULL
                       THEN SetUser(t, user, "trial_end_date", obj.trial_end)
                       ELSE t
              ELSE IF obj.status = "active"
              THEN LET t == SetUser(s1, user, "subscription_status", "active")
                   IN  IF t.pending.users[user].is_on_trial
                       THEN SetUser(t, user, "is_on_trial", FALSE)
                       ELSE t
              ELSE IF obj.status \in {"canceled", "unpaid", "past_due"}
              THEN LET t == SetUser(s1, user, "subscription_status", obj.status)
                   IN  IF obj.status = "canceled"
                       THEN SetUser(SetUser(t, user, "subscription_tier", "free"),
                                    user, "is_on_trial", FALSE)
                       ELSE t
              ELSE s1
    IN  Commit(s2)

\* handle_subscription_deleted changing the row and leaving the user alone
HandleSubscriptionDeletedRowOnly(s, obj) ==
    IF SubRow(s, obj.id) = {} THEN s
    ELSE Commit(SetSub(s, obj.id, "status", "canceled"))

HandleSubscriptionDeleted(s, obj) ==
    IF SubRow(s, obj.id) = {} THEN s
    ELSE
    LET user == (CHOOSE r \in SubRow(s, obj.id) : TRUE).user_id
    IN  Commit(SetSub(
            SetUser(SetUser(s, user, "subscription_tier", "free"),
                    user, "subscription_status", "canceled"),
            obj.id, "status", "canceled"))

\* amount / 100 stored in a Numeric(10, 2) column
Dollars(cents) == [units |-> cents \div 100, hundredths |-> cents % 100]

\* handle_payment_succeeded and handle_payment_failed differ in status only
HandlePayment(s, obj, status) ==
    IF "user_id" \notin DOMAIN obj.metadata THEN s
    ELSE Commit(AddPayment(s,
             [user_id |-> obj.metadata.user_id,
              stripe_payment_intent_id |-> obj.id,
              amount |-> Dollars(obj.amount),
              status |-> status]))

\* retrieved is "error" when stripe.Subscription.retrieve raises
HandleCheckoutCompleted(s, obj, retrieved) ==
    LET user_id == obj.metadata.user_id
        subscription == stripe[obj.subscription]
    IN
    IF user_id = NULL \/ user_id \notin UserIds THEN [s EXCEPT !.error = TRUE]
    ELSE IF ~(obj.mode = "subscription" /\ obj.subscription # NULL) THEN s
    ELSE IF retrieved = "error" THEN Except(s)
    ELSE
    LET s1 == SetUser(s, user_id, "subscription_tier", "pro")
        user == s1.pending.users[user_id]
        s2 == IF subscription.status = "trialing"
              THEN LET t == SetUser(SetUser(s1, user_id, "subscription_status", "trialing"),
                                    user_id, "is_on_trial", TRUE)
                   IN  IF subscription.trial_start # NULL /\ subscription.trial_end # NULL
                       THEN SetUser(SetUser(t, user_id, "trial_start_date",
                                            subscription.trial_start),
                                    user_id, "trial_end_date", subscription.trial_end)
                       ELSE t
              ELSE IF subscription.status = "active"
              THEN LET t == SetUser(s1, user_id, "subscription_status", "active")
                   IN  IF user.is_on_trial /\ user.trial_end_date # NULL
                          /\ now >= user.trial_end_date
                       THEN SetUser(t, user_id, "is_on_trial", FALSE)
                       ELSE t
              ELSE SetUser(s1, user_id, "subscription_status", subscription.status)
    IN  Commit(s2)

\* reconciliation that never downgrades
SyncUserSubscriptionNoDowngrade(s, u, listed) ==
    LET s0 == [s EXCEPT !.syncs = Append(@, u)]
        user == s0.pending.users[u]
    IN
    IF user.stripe_customer_id = NULL THEN s0
    ELSE IF listed = "error" THEN Except(s0)
    ELSE IF listed # "none"
    THEN LET s1 == IF user.subscription_tier # "pro"
                   THEN SetUser(s0, u, "subscription_tier", "pro") ELSE s0
             s2 == IF user.subscription_status # listed
                   THEN SetUser(s1, u, "subscription_status", listed) ELSE s1
         IN  Commit(s2)
    ELSE s0

\* listed is one of ListOutcomes
SyncUserSubscription(s, u, listed) ==
    LET s0 == [s EXCEPT !.syncs = Append(@, u)]
        user == s0.pending.users[u]
    IN
    IF user.stripe_customer_id = NULL THEN s0
    ELSE IF listed = "error" THEN Except(s0)
    ELSE IF listed # "none"
    THEN LET s1 == IF user.subscription_tier # "pro"
                   THEN SetUser(s0, u, "subscription_tier", "pro") ELSE s0
             s2 == IF user.subscription_status # listed
                   THEN SetUser(s1, u, "subscription_status", listed) ELSE s1
         IN  Commit(s2)
    ELSE IF user.subscription_tier = "pro"
    THEN Commit(SetUser(SetUser(s0, u, "subscription_tier", "free"),
                        u, "subscription_status", "inactive"))
    ELSE s0

(***************************************************************************)
(* The webhook endpoint.                                                    *)
(***************************************************************************)
\* what stripe.Webhook.construct_event may do with a request
Verifications == {"ok", "ValueError", "SignatureVerificationError"}

Dispatch(s, event, gateway) ==
    IF event.type = "customer.subscription.created"
    THEN HandleSubscriptionCreated(s, event.object)
    ELSE IF event.type = "customer.subscription.updated"
    THEN HandleSubscriptionUpdated(s, event.object)
    ELSE IF event.type = "customer.subscription.deleted"
    THEN HandleSubscriptionDeleted(s, event.object)
    ELSE IF event.type = "payment_intent.succeeded"
    THEN HandlePayment(s, event.object, "succeeded")
    ELSE IF event.type = "payment_intent.payment_failed"
    THEN HandlePayment(s, event.object, "failed")
    ELSE IF event.type = "checkout.session.completed"
    THEN HandleCheckoutCompleted(s, event.object, gateway)
    ELSE s

\* stripe_webhook dispatching whatever the request carries
StripeWebhookUnverified(verification, event, gateway) ==
    LET req == [verification |-> verification, event |-> event,
                gateway |-> gateway]
        s == Dispatch(Session, event, gateway)
    IN  /\ Store(s)
        /\ resp' = [op |-> "webhook", req |-> req, status |-> 200,
                    dispatched |-> TRUE, units |-> <<UnitOf(s)>>]
        /\ UnchangedProjects /\ UNCHANGED <<stripe, now, inflight, warningLog, accounts>>

\* POST /api/webhooks/stripe
StripeWebhook(verification, event, gateway) ==
    LET req == [verification |-> verification, event |-> event,
                gateway |-> gateway]
    IN
    IF verification = "ValueError"
    THEN /\ resp' = [op |-> "webhook", req |-> req, status |-> 400,
                     error |-> "Invalid payload",
                     dispatched |-> FALSE, units |-> <<>>]
         /\ UnchangedProjects /\ UnchangedBilling /\ UNCHANGED <<now, inflight, warningLog, accounts>>
    ELSE IF verification = "SignatureVerificationError"
    THEN /\ resp' = [op |-> "webhook", req |-> req, status |-> 400,
                     error |-> "Invalid signature",
                     dispatched |-> FALSE, units |-> <<>>]
         /\ UnchangedProjects /\ UnchangedBilling /\ UNCHANGED <<now, inflight, warningLog, accounts>>
    ELSE LET s == Dispatch(Session, event, gateway)
         IN  /\ Store(s)
             /\ resp' = [op |-> "webhook", req |-> req, status |-> 200,
                         dispatched |-> TRUE, units |-> <<UnitOf(s)>>]
             /\ UnchangedProjects /\ UNCHANGED <<stripe, now, inflight, warningLog, accounts>>

(***************************************************************************)
(* The subscription routes and the dashboard.                               *)
(***************************************************************************)
\* what the calls to the processor made for a checkout may do: both succeed,
\* stripe.Customer.create raises, or stripe.checkout.Session.create raises
CheckoutOutcomes == {"ok", "customer_error", "session_error"}

\* POST /api/subscription/create-checkout-session
CreateCheckoutSession(caller, gateway) ==
    LET req == [caller |-> caller, gateway |-> gateway]
        failed == Error("create_checkout_session", req, 500,
                        "Failed to create checkout session")
    IN
    IF caller \notin UserIds
    THEN /\ resp' = Error("create_checkout_session", req, 404, "User not found")
         /\ UnchangedProjects /\ UnchangedBilling /\ UNCHANGED <<now, inflight, warningLog, accounts>>
    ELSE IF users[caller].subscription_tier = "pro"
            /\ users[caller].subscription_status = "active"
    THEN /\ resp' = Error("create_checkout_session", req, 400,
                          "User already has an active Pro subscription")
         /\ UnchangedProjects /\ UnchangedBilling /\ UNCHANGED <<now, inflight, warningLog, accounts>>
    ELSE IF users[caller].stripe_customer_id = NULL /\ gateway = "customer_error"
    THEN /\ resp' = failed
         /\ UnchangedProjects /\ UnchangedBilling /\ UNCHANGED <<now, inflight, warningLog, accounts>>
    ELSE LET s == IF users[caller].stripe_customer_id = NULL
                  THEN Commit(SetUser(Session, caller, "stripe_customer_id", caller))
                  ELSE Session
         IN  /\ Store(s)
             /\ resp' = IF gateway = "session_error" THEN failed
                        ELSE [op |-> "create_checkout_session", req |-> req,
                              status |-> 200, success |-> TRUE]
             /\ UnchangedProjects /\ UNCHANGED <<stripe, now, inflight, warningLog, accounts>>

\* cancel and reactivate writing the row's status along with the flag
SetCancelAtPeriodEndAndStatus(caller, flag, gateway) ==
    LET op == IF flag THEN "cancel" ELSE "reactivate"
        req == [caller |-> caller, gateway |-> gateway]
        rows == {r \in subs : r.user_id = caller}
    IN
    IF caller \notin UserIds \/ rows = {} \/ gateway = "error"
    THEN /\ resp' = Error(op, req, 404, "No active subscription found")
         /\ UnchangedProjects /\ UnchangedBilling
         /\ UNCHANGED <<now, inflight, warningLog, accounts>>
    ELSE \E subscription \in rows :
        LET sid == subscription.stripe_subscription_id
            s == Commit(SetSub(SetSub(Session, sid, "cancel_at_period_end", flag),
                               sid, "status", IF flag THEN "canceled" ELSE "active"))
        IN  /\ Store(s)
            /\ stripe' = [stripe EXCEPT ![sid].cancel_at_period_end = flag]
            /\ resp' = [op |-> op, req |-> req, status |-> 200,
                        units |-> <<UnitOf(s)>>]
            /\ UnchangedProjects /\ UNCHANGED <<now, inflight, warningLog, accounts>>

\* POST /api/subscription/cancel (flag TRUE) and /reactivate (flag FALSE);
\* gateway is "error" when stripe.Subscription.modify raises
SetCancelAtPeriodEnd(caller, flag, gateway) ==
    LET op == IF flag THEN "cancel" ELSE "reactivate"
        req == [caller |-> caller, gateway |-> gateway]
        rows == {r \in subs : r.user_id = caller}
        missing == IF flag
                   THEN Error(op, req, 404, "No active subscription found")
                   ELSE Error(op, req, 404, "No subscription set to cancel found")
    IN
    IF caller \notin UserIds
    THEN /\ resp' = Error(op, req, 404, "User not found")
         /\ UnchangedProjects /\ UnchangedBilling /\ UNCHANGED <<now, inflight, warningLog, accounts>>
    ELSE IF rows = {}
    THEN /\ resp' = missing
         /\ UnchangedProjects /\ UnchangedBilling /\ UNCHANGED <<now, inflight, warningLog, accounts>>
    ELSE \E subscription \in rows :
        IF ~flag /\ ~subscription.cancel_at_period_end
        THEN /\ resp' = missing
             /\ UnchangedProjects /\ UnchangedBilling /\ UNCHANGED <<now, inflight, warningLog, accounts>>
        ELSE IF gateway = "error"
        THEN /\ resp' = IF flag
                        THEN Error(op, req, 500, "Failed to cancel subscription")
                        ELSE Error(op, req, 500, "Failed to reactivate subscription")
             /\ UnchangedProjects /\ UnchangedBilling /\ UNCHANGED <<now, inflight, warningLog, accounts>>
        ELSE LET sid == subscription.stripe_subscription_id
                 s == Commit(SetSub(Session, sid, "cancel_at_period_end", flag))
             IN  /\ Store(s)
                 /\ stripe' = [stripe EXCEPT ![sid].cancel_at_period_end = flag]
                 /\ resp' = [op |-> op, req |-> req, status |-> 200,
                             units |-> <<UnitOf(s)>>]
                 /\ UnchangedProjects /\ UNCHANGED <<now, inflight, warningLog, accounts>>

\* GET /dashboard: reconciliation for a user with a customer id
Dashboard(caller, listed) ==
    LET req == [caller |-> caller, listed |-> listed]
        s == IF caller \in UserIds /\ users[caller].stripe_customer_id # NULL
             THEN SyncUserSubscription(Session, caller, listed)
             ELSE Session
    IN  /\ Store(s)
        /\ resp' = [op |-> "dashboard", req |-> req, status |-> 200,
                    units |-> <<UnitOf(s)>>]
        /\ UnchangedProjects /\ UNCHANGED <<stripe, now, inflight, warningLog, accounts>>

(***************************************************************************)
(* The trial expiration sweep.                                              *)
(***************************************************************************)
\* expire_trial(user); listed[u] is what the processor answers for u
ExpireTrial(s, u, listed) ==
    IF ~s.pending.users[u].is_on_trial THEN s
    ELSE LET s1 == SetUser(s, u, "is_on_trial", FALSE)
             s2 == IF s1.pending.users[u].subscription_status = "trialing"
                   THEN SyncUserSubscription(s1, u, listed[u])
                   ELSE s1
         IN  Commit(s2)

\* the users the sweep's query selects
ExpiredUsers ==
    {u \in UserIds : /\ users[u].is_on_trial
                     /\ users[u].trial_end_date # NULL
                     /\ users[u].trial_end_date <= now}

\* the loop of check_and_expire_trials over the users left to do
RECURSIVE ExpireEach(_, _, _, _)
ExpireEach(todo, s, listed, units) ==
    IF todo = {} THEN [session |-> s, units |-> units]
    ELSE LET u == CHOOSE x \in todo : \A y \in todo : x <= y
             t == ExpireTrial(NextUnit(s), u, listed)
         IN  ExpireEach(todo \ {u}, t, listed,
                        Append(units, UnitOf(t)))

\* run_trial_expiration_check()
CheckAndExpireTrials(listed) ==
    LET done == ExpireEach(ExpiredUsers, Session, listed, <<>>)
    IN  /\ Store(done.session)
        /\ resp' = [op |-> "check_and_expire_trials",
                    req |-> [listed |-> listed, expired_users |-> ExpiredUsers],
                    status |-> 200,
                    count |-> Len(done.units), units |-> done.units]
        /\ UnchangedProjects /\ UNCHANGED <<stripe, now, inflight, warningLog, accounts>>

\* the answers the processor may give for each user's customer
Listings ==
    {l \in [UserIds -> {"error", "none", "active", "trialing"}] :
        \A u \in UserIds : l[u] \in ListOutcomes(users[u].stripe_customer_id)}

(***************************************************************************)
(* The webhook endpoint under every event and every outcome of the          *)
(* signature check, with the checkouts and the processor that lead to the   *)
(* events.                                                                  *)
(***************************************************************************)
WebhookNext ==
    \/ /\ resp = Idle
       /\ \/ \E caller \in UserIds, gateway \in CheckoutOutcomes :
                CreateCheckoutSession(caller, gateway)
          \/ \E v \in Verifications, event \in Events :
                \E gateway \in GatewayOutcomes(event) :
                   StripeWebhook(v, event, gateway)
          \/ \E s \in SubIds, u \in UserIds : StripeSubscribe(s, u)
          \/ \E s \in SubIds, st \in SubscriptionStatuses : StripeUpdate(s, st)
    \/ Respond

SpecWebhook == Init /\ [][WebhookNext]_vars

(***************************************************************************)
(* The subscription lifecycle: checkout, the verified subscription and      *)
(* checkout events, cancel and reactivate, reconciliation on the dashboard, *)
(* the trial expiration sweep, the payment processor and the clock.         *)
(***************************************************************************)
BillingNext ==
    \/ /\ resp = Idle
       /\ \/ \E caller \in UserIds, gateway \in CheckoutOutcomes :
                CreateCheckoutSession(caller, gateway)
          \/ \E event \in LifecycleEvents :
                \E gateway \in GatewayOutcomes(event) :
                   StripeWebhook("ok", event, gateway)
          \/ \E caller \in UserIds, flag \in BOOLEAN, gateway \in {"ok", "error"} :
                SetCancelAtPeriodEnd(caller, flag, gateway)
          \/ \E caller \in UserIds :
                \E listed \in ListOutcomes(users[caller].stripe_customer_id) :
                   Dashboard(caller, listed)
          \/ \E listed \in Listings : CheckAndExpireTrials(listed)
          \/ \E s \in SubIds, u \in UserIds : StripeSubscribe(s, u)
          \/ \E s \in SubIds, st \in SubscriptionStatuses : StripeUpdate(s, st)
          \/ Tick
    \/ Respond

SpecBilling == Init /\ [][BillingNext]_vars

(***************************************************************************)
(* C4.  For a subscription id S: once a subscription-created event for S    *)
(* has been processed there is a subscriptions row for S owned by the       *)
(* event's user, no later step removes the row or gives it to another user, *)
(* and processing a subscription-deleted event for S then leaves that row   *)
(* at status canceled and its user at tier free and status canceled,        *)
(* whatever events were processed in between.                               *)
(***************************************************************************)
C4_RowsStay ==
    \A r \in subs : \E t \in subs' :
        /\ t.stripe_subscription_id = r.stripe_subscription_id
        /\ t.user_id = r.user_id

C4_Step ==
    /\ C4_RowsStay
    /\ (resp = Idle /\ resp'.op = "webhook" /\ resp'.dispatched) =>
          LET event == resp'.req.event IN
          /\ event.type = "customer.subscription.created" =>
                \E r \in subs' :
                   /\ r.stripe_subscription_id = event.object.id
                   /\ r.user_id = event.object.metadata.user_id
          /\ event.type = "customer.subscription.deleted" =>
                \A r \in subs :
                   r.stripe_subscription_id = event.object.id =>
                      /\ \A t \in subs' :
                            t.stripe_subscription_id = event.object.id =>
                               t.status = "canceled"
                      /\ users'[r.user_id].subscription_tier = "free"
                      /\ users'[r.user_id].subscription_status = "canceled"

C4_CreatedThenDeleted == [][C4_Step]_vars

\* a deleted event was processed for a subscription whose row exists and
\* whose user had been put on trial by an earlier event
C4_Witness ==
    /\ resp.op = "webhook" /\ resp.status = 200
    /\ resp.req.event.type = "customer.subscription.deleted"
    /\ \E r \in subs :
          /\ r.stripe_subscription_id = resp.req.event.object.id
          /\ r.status = "canceled"
          /\ users[r.user_id].subscription_tier = "free"
          /\ users[r.user_id].subscription_status = "canceled"
          /\ users[r.user_id].is_on_trial

(***************************************************************************)
(* C5.  A webhook request whose payload is malformed or whose signature     *)
(* fails verification is answered with 400, no event handler runs, and the  *)
(* users, subscriptions and payment_history tables are left as they were.   *)
(***************************************************************************)
C5_Step ==
    (resp = Idle /\ resp'.op = "webhook" /\ resp'.req.verification # "ok") =>
        /\ resp'.status = 400
        /\ ~resp'.dispatched /\ resp'.units = <<>>
        /\ users' = users /\ subs' = subs /\ payments' = payments

C5_RejectedBeforeHandlers == [][C5_Step]_vars

\* a deleted event with a bad signature arrived for a subscription whose row
\* is not canceled and whose user is on the pro tier
C5_Witness ==
    /\ resp.op = "webhook" /\ resp.status = 400
    /\ resp.req.verification = "SignatureVerificationError"
    /\ resp.req.event.type = "customer.subscription.deleted"
    /\ \E r \in subs :
          /\ r.stripe_subscription_id = resp.req.event.object.id
          /\ r.status # "canceled"
          /\ users[r.user_id].subscription_tier = "pro"

(***************************************************************************)
(* C6.  One run of the trial expiration sweep leaves the trial flag cleared *)
(* for every user whose flag was set and whose trial_end_date had passed,   *)
(* and invokes reconciliation for that user once if the user's status was   *)
(* "trialing" and not at all otherwise; for a user whose flag is not set (as*)
(* after a first run) the sweep changes nothing and invokes nothing.        *)
(***************************************************************************)
C6_Syncs(units, u) ==
    Cardinality({ki \in {<<k, i>> : k \in DOMAIN units, i \in 1..NumUsers} :
                    /\ ki[2] \in DOMAIN units[ki[1]].syncs
                    /\ units[ki[1]].syncs[ki[2]] = u})

C6_Step ==
    (resp = Idle /\ resp'.op = "check_and_expire_trials") =>
        \A u \in UserIds :
            /\ (/\ users[u].is_on_trial
                /\ users[u].trial_end_date # NULL
                /\ users[u].trial_end_date <= now) =>
                  /\ ~users'[u].is_on_trial
                  /\ C6_Syncs(resp'.units, u) =
                        (IF users[u].subscription_status = "trialing" THEN 1 ELSE 0)
            /\ ~users[u].is_on_trial =>
                  /\ users'[u] = users[u]
                  /\ C6_Syncs(resp'.units, u) = 0

C6_SweepClearsFlag == [][C6_Step]_vars

(***************************************************************************)
(* C7.  Each subscription-lifecycle operation (a dispatched webhook event,  *)
(* cancel, reactivate, reconciliation, the trial expiration of one user) is *)
(* all or nothing on the users and subscriptions tables: when the unit of   *)
(* work logged no error every assignment and insert it issued is in the     *)
(* committed rows, when it logged an error none is, and the rows differ     *)
(* from what they were only by what a unit without error issued.  This      *)
(* includes the flag expire_trial clears before a reconciliation that fails *)
(* and rolls back.                                                          *)
(***************************************************************************)
C7_Operations ==
    {"webhook", "cancel", "reactivate", "dashboard", "check_and_expire_trials"}

C7_Units(r) == IF "units" \in DOMAIN r THEN r.units ELSE <<>>

C7_Applied(w) ==
    /\ w[1] = "users" => users'[w[2]][w[3]] = w[4]
    /\ (w[1] = "subscriptions" /\ w[3] = "INSERT") => w[4] \in subs'
    /\ (w[1] = "subscriptions" /\ w[3] # "INSERT") =>
          \E r \in subs' : r.stripe_subscription_id = w[2] /\ r[w[3]] = w[4]

C7_Issued(units, table, key, field) ==
    \E k \in DOMAIN units :
        /\ ~units[k].error
        /\ \E i \in DOMAIN units[k].writes :
              LET w == units[k].writes[i]
              IN  /\ w[1] = table /\ w[2] = key
                  /\ (field = "" \/ w[3] = field)

C7_Step ==
    (resp = Idle /\ resp'.op \in C7_Operations) =>
        LET units == C7_Units(resp') IN
        /\ \A k \in DOMAIN units :
              ~units[k].error =>
                  \A i \in DOMAIN units[k].writes : C7_Applied(units[k].writes[i])
        /\ \A u \in UserIds : \A f \in DOMAIN users[u] :
              users'[u][f] # users[u][f] => C7_Issued(units, "users", u, f)
        /\ \A r \in subs' \ subs :
              C7_Issued(units, "subscriptions", r.stripe_subscription_id, "")
        /\ C4_RowsStay

C10_Step ==
    (/\ resp = Idle /\ resp'.op = "webhook" /\ resp'.dispatched
     /\ resp'.req.event.type = "customer.subscription.deleted") =>
        LET user_id == resp'.req.event.object.metadata.user_id
        IN  /\ users'[user_id].subscription_tier = "free"
            /\ users'[user_id].subscription_status = "canceled"

C10_DeletedForcesFree == [][C10_Step]_vars

(***************************************************************************)
(* C11.  After a subscription-created or subscription-updated event for an  *)
(* id S has been processed there is a subscriptions row for S whose status, *)
(* period bounds and cancel_at_period_end are those of the event: an        *)
(* updated event for an id without a row creates the row, a created event   *)
(* for an id with a row updates it.                                         *)
(***************************************************************************)
C11_Step ==
    (/\ resp = Idle /\ resp'.op = "webhook" /\ resp'.dispatched
     /\ resp'.req.event.type \in {"customer.subscription.created",
                                  "customer.subscription.updated"}) =>
        LET obj == resp'.req.event.object
        IN  \E r \in subs' :
               /\ r.stripe_subscription_id = obj.id
               /\ r.status = obj.status
               /\ r.current_period_start = obj.current_period_start
               /\ r.current_period_end = obj.current_period_end
               /\ r.cancel_at_period_end = obj.cancel_at_period_end

C11_Upsert == [][C11_Step]_vars

(***************************************************************************)
(* C12.  After a subscription-created or subscription-updated event with    *)
(* status s has been processed, the subscription's user has                 *)
(* subscription_status s (a created event of a trialing subscription leaves *)
(* the user trialing, not active); after an event with status active the    *)
(* user's trial flag is cleared, after one with status canceled the user's  *)
(* tier is free.                                                            *)
(***************************************************************************)
C12_Step ==
    (/\ resp = Idle /\ resp'.op = "webhook" /\ resp'.dispatched
     /\ resp'.req.event.type \in {"customer.subscription.created",
                                  "customer.subscription.updated"}) =>
        LET obj == resp'.req.event.object
            user == users'[obj.metadata.user_id]
        IN  /\ user.subscription_status = obj.status
            /\ obj.status = "active" => ~user.is_on_trial
            /\ obj.status = "canceled" => user.subscription_tier = "free"

C12_StatusMirrored == [][C12_Step]_vars

(***************************************************************************)
(* C13.  After a checkout.session.completed event of a subscription-mode    *)
(* session has been processed (the processor answering the retrieve), the   *)
(* user has tier pro and the subscription_status of the processor's         *)
(* subscription; when that status is trialing the trial flag is set and the *)
(* trial dates are the processor's, when it is active the trial flag is     *)
(* cleared, whatever trial_end_date is stored.                              *)
(***************************************************************************)
C13_Step ==
    (/\ resp = Idle /\ resp'.op = "webhook" /\ resp'.dispatched
     /\ resp'.req.event.type = "checkout.session.completed"
     /\ resp'.req.gateway = "ok") =>
        LET obj == resp'.req.event.object
            subscription == stripe[obj.subscription]
            user == users'[obj.metadata.user_id]
        IN  /\ user.subscription_tier = "pro"
            /\ user.subscription_status = subscription.status
            /\ subscription.status = "trialing" =>
                  /\ user.is_on_trial
                  /\ user.trial_start_date = subscription.trial_start
                  /\ user.trial_end_date = subscription.trial_end
            /\ subscription.status = "active" => ~user.is_on_trial

C13_CheckoutCompleted == [][C13_Step]_vars

(***************************************************************************)
(* C14.  A cancel request that is accepted sets cancel_at_period_end to     *)
(* true, a reactivate request that is accepted sets it to false, on the     *)
(* processor's subscription and on the caller's subscriptions row alike; a  *)
(* cancel request of a user with a row is accepted when the processor       *)
(* answers.  No cancel or reactivate request, accepted or refused, changes  *)
(* anything else: not a row's status, owner or period, and no user's tier,  *)
(* subscription_status or trial fields.                                     *)
(***************************************************************************)
C14_Step ==
    (resp = Idle /\ resp'.op \in {"cancel", "reactivate"}) =>
        LET flag == resp'.op = "cancel"
            caller == resp'.req.caller
        IN
        /\ users' = users
        /\ payments' = payments
        /\ (flag /\ resp'.req.gateway = "ok"
              /\ \E r \in subs : r.user_id = caller) => resp'.status = 200
        /\ IF resp'.status = 200
           THEN \E r \in subs :
                   /\ r.user_id = caller
                   /\ subs' = (subs \ {r}) \cup
                                 {[r EXCEPT !.cancel_at_period_end = flag]}
                   /\ stripe' = [stripe EXCEPT
                         ![r.stripe_subscription_id].cancel_at_period_end = flag]
           ELSE subs' = subs /\ stripe' = stripe

C14_CancelReactivate == [][C14_Step]_vars

\* a reactivate request was accepted: the row of a trialing subscription and
\* the processor's subscription are both back to not cancelling
C14_Witness ==
    /\ resp.op = "reactivate" /\ resp.status = 200
    /\ \E r \in subs :
          /\ r.user_id = resp.req.caller
          /\ r.status = "trialing"
          /\ ~r.cancel_at_period_end
          /\ ~stripe[r.stripe_subscription_id].cancel_at_period_end
          /\ users[r.user_id].subscription_tier = "pro"

(***************************************************************************)
(* C15.  After a reconciliation of a user with a customer id in which the   *)
(* processor answered: when the processor holds an active or trialing       *)
(* subscription of the customer the user has tier pro and the status of     *)
(* such a subscription; otherwise a user whose tier was pro has tier free   *)
(* and status inactive and a user whose tier was free is unchanged.  No     *)
(* other column and no other row changes, and reconciling again with the    *)
(* processor in the same state writes nothing.                              *)
(***************************************************************************)
C15_Live(customer) ==
    {stripe[s].status : s \in {x \in SubIds :
        /\ stripe[x].customer = customer
        /\ stripe[x].status \in {"active", "trialing"}}}

C15_Reconciled(r) ==
    /\ r.op = "dashboard"
    /\ r.req.caller \in UserIds
    /\ users[r.req.caller].stripe_customer_id # NULL
    /\ r.req.listed # "error"

C15_Step ==
    (resp = Idle /\ C15_Reconciled(resp')) =>
        LET u == resp'.req.caller
            live == C15_Live(users[u].stripe_customer_id)
        IN  /\ subs' = subs /\ payments' = payments
            /\ \E tier \in Tiers, status \in UserStatuses :
                  users' = [users EXCEPT ![u].subscription_tier = tier,
                                         ![u].subscription_status = status]
            /\ live # {} =>
                  /\ users'[u].subscription_tier = "pro"
                  /\ users'[u].subscription_status \in live
                  /\ users'[u].subscription_status = resp'.req.listed
            /\ (live = {} /\ users[u].subscription_tier = "pro") =>
                  /\ users'[u].subscription_tier = "free"
                  /\ users'[u].subscription_status = "inactive"
            /\ (live = {} /\ users[u].subscription_tier = "free") =>
                  users'[u] = users[u]

C15_Again ==
    C15_Reconciled(resp) =>
        LET s == SyncUserSubscription(Session, resp.req.caller, resp.req.listed)
        IN  s.writes = <<>> /\ ~s.error /\ s.committed = Tables

C15_Reconciliation == []C15_Again /\ [][C15_Step]_vars

\* a reconciliation found no live subscription and downgraded a pro user
C15_Witness ==
    /\ C15_Reconciled(resp)
    /\ resp.req.listed = "none"
    /\ resp.units[1].writes # <<>>
    /\ users[resp.req.caller].subscription_tier = "free"
    /\ users[resp.req.caller].subscription_status = "inactive"

(***************************************************************************)
(* C16.  project_versions is append-only: no step changes a stored row; a   *)
(* row leaves the table only in a step that removes its project and every   *)
(* row of that project; and a row that a step adds carries a version_number *)
(* that no stored row of the same project carries.                          *)
(***************************************************************************)
C16_Step ==
    /\ \A v \in versions, w \in versions' : v.id = w.id => v = w
    /\ \A v \in versions \ versions' :
          /\ \A p \in projects' : p.id # v.project_id
          /\ \A w \in versions' : w.project_id # v.project_id
    /\ \A v \in versions' \ versions : \A w \in versions :
          w.project_id = v.project_id => w.version_number # v.version_number

C16_AppendOnly == [][C16_Step]_vars

(***************************************************************************)
(* C17.  In every step that turns a user's is_on_trial from false to true,  *)
(* the user's trial_end_date after the step is set and later than the       *)
(* current time.                                                            *)
(***************************************************************************)
C17_Step ==
    \A u \in UserIds :
        (~users[u].is_on_trial /\ users'[u].is_on_trial) =>
            /\ users'[u].trial_end_date # NULL
            /\ users'[u].trial_end_date > now'

C17_TrialEndInFuture == [][C17_Step]_vars

(***************************************************************************)
(* C18.  In every reachable state a user whose tier is free and whose trial *)
(* is not active (flag unset, or trial_end_date reached) owns at most       *)
(* FREE_TIER_PROJECT_LIMIT projects.                                        *)
(***************************************************************************)
C18_FreeUsersWithinLimit ==
    \A u \in UserIds :
        (users[u].subscription_tier = "free" /\ ~IsTrialActive(users[u]))
            => ProjectCount(u) <= FREE_TIER_PROJECT_LIMIT

(***************************************************************************)
(* C20.  In every reachable state each user's subscription_tier is free or  *)
(* pro and each user's subscription_status is one of inactive, active,      *)
(* trialing, past_due, canceled, unpaid.                                    *)
(***************************************************************************)
C20_UserColumnsInDomain ==
    \A u \in UserIds :
        /\ users[u].subscription_tier \in Tiers
        /\ users[u].subscription_status \in UserStatuses

(***************************************************************************)
(* The trial warning sweep.  Here the clock counts fractions of a day:      *)
(* TicksPerDay ticks make 24 hours.  User 1 has just started a trial of     *)
(* WarningTrialDays days.  The sweep is started from outside (cron); the    *)
(* schedule modelled is any schedule that leaves at least a day between two *)
(* runs.  warningLog holds what the sweep writes to the log: one entry per  *)
(* run and one entry per warning.                                           *)
(***************************************************************************)
TicksPerDay == 2
WarningTrialDays == 8
WarningHorizon == WarningTrialDays * TicksPerDay

WarningThresholds == {7, 3, 1}

\* days_remaining_in_trial taking the tick count for the day count
DaysRemainingInTicks(u) ==
    IF ~IsTrialActive(u) THEN 0
    ELSE IF u.trial_end_date - now > 0 THEN u.trial_end_date - now ELSE 0

\* User.days_remaining_in_trial: timedelta.days is the whole days of the delta
DaysRemainingInTrial(u) ==
    IF ~IsTrialActive(u) THEN 0
    ELSE IF (u.trial_end_date - now) \div TicksPerDay > 0
         THEN (u.trial_end_date - now) \div TicksPerDay
         ELSE 0

\* the users the sweep's query selects
TrialUsers ==
    {u \in UserIds : /\ users[u].is_on_trial
                     /\ users[u].trial_end_date # NULL
                     /\ users[u].trial_end_date > now}

\* check_and_send_trial_warnings: the warnings it sends; query is "error"
\* when the query raises, and then the sweep returns 0
CheckAndSendTrialWarnings(query) ==
    IF query = "error" THEN {}
    ELSE {[user |-> u, days_remaining |-> DaysRemainingInTrial(users[u]), at |-> now] :
             u \in {x \in TrialUsers :
                       DaysRemainingInTrial(users[x]) \in WarningThresholds}}

\* run_trial_warning_check
RunTrialWarningCheck(query) ==
    /\ \A r \in warningLog.runs : now - r.at >= TicksPerDay
    /\ warningLog' =
          [runs |-> warningLog.runs \cup
                      {[at |-> now, query |-> query,
                        count |-> Cardinality(CheckAndSendTrialWarnings(query))]},
           sent |-> warningLog.sent \cup CheckAndSendTrialWarnings(query)]
    /\ UnchangedProjects /\ UnchangedBilling /\ UNCHANGED <<now, inflight, resp, accounts>>

WarningTick ==
    /\ now < WarningHorizon
    /\ now' = now + 1
    /\ UnchangedProjects /\ UnchangedBilling /\ UNCHANGED <<inflight, resp, warningLog, accounts>>

InitWarnings ==
    /\ users = [u \in UserIds |->
                  IF u = 1
                  THEN [NewUser EXCEPT !.stripe_customer_id = 1,
                                       !.subscription_tier = "pro",
                                       !.subscription_status = "trialing",
                                       !.is_on_trial = TRUE,
                                       !.trial_start_date = 0,
                                       !.trial_end_date = WarningHorizon]
                  ELSE NewUser]
    /\ projects = {}
    /\ nextProjectId = 1
    /\ versions = {}
    /\ nextVersionId = 1
    /\ subs = {}
    /\ payments = {}
    /\ stripe = [s \in SubIds |-> NoSubscription]
    /\ now = 0
    /\ inflight = [w \in Workers |-> Idle]
    /\ resp = Idle
    /\ warningLog = NoWarnings
    /\ accounts = {}

WarningsNext ==
    \/ \E query \in {"ok", "error"} : RunTrialWarningCheck(query)
    \/ WarningTick

SpecWarnings == InitWarnings /\ [][WarningsNext]_vars

(***************************************************************************)
(* C19.  When a user's trial has ended, the log holds exactly one warning   *)
(* for that user for each of the thresholds 7, 3 and 1:                     *)
(*  - C19_EachThresholdOnce_AtMostDaily: whenever at least a day lies       *)
(*    between any two runs of the sweep;                                    *)
(*  - C19_EachThresholdOnce: whenever the sweep's runs before the end of    *)
(*    the trial all succeed and are exactly one day apart, the first of     *)
(*    them at a time when at least 7 days remain and the last less than a   *)
(*    day before the end.                                                   *)
(***************************************************************************)
C19_TrialOver(u) ==
    /\ users[u].is_on_trial
    /\ users[u].trial_end_date # NULL
    /\ now >= users[u].trial_end_date

C19_OncePerThreshold(u) ==
    \A d \in WarningThresholds :
        Cardinality({w \in warningLog.sent :
                        w.user = u /\ w.days_remaining = d}) = 1

C19_AtMostDaily ==
    \A r, q \in warningLog.runs :
        r.at # q.at => (r.at - q.at >= TicksPerDay \/ q.at - r.at >= TicksPerDay)

C19_RunsDuring(u) == {r \in warningLog.runs : r.at < users[u].trial_end_date}

C19_ExactlyDaily(u) ==
    LET runs == C19_RunsDuring(u)
        end == users[u].trial_end_date
    IN  /\ runs # {}
        /\ \A r \in runs : r.query = "ok"
        /\ \E first \in runs :
              /\ end - first.at >= 7 * TicksPerDay
              /\ {r.at : r \in runs} =
                    {t \in first.at .. (end - 1) :
                        (t - first.at) % TicksPerDay = 0}

C21_ProHasCustomer ==
    \A u \in UserIds :
        users[u].subscription_tier = "pro" => users[u].stripe_customer_id # NULL

\* a checkout-completed event has just upgraded a user, who has a customer id
C21_Witness ==
    /\ resp.op = "webhook" /\ resp.status = 200 /\ resp.dispatched
    /\ resp.req.event.type = "checkout.session.completed"
    /\ ~resp.units[1].error
    /\ resp.units[1].writes # <<>>
    /\ LET u == resp.req.event.object.metadata.user_id
       IN  /\ users[u].subscription_tier = "pro"
           /\ users[u].stripe_customer_id # NULL

(***************************************************************************)
(* After a reconciliation.  User 1 went through a checkout, the processor   *)
(* made subscription 1 and moved it to some status, every event was lost,   *)
(* and the dashboard has just reconciled user 1 without error.  From here   *)
(* the processor changes nothing any more; events (late ones too),          *)
(* reconciliations and the expiration sweep go on.                          *)
(***************************************************************************)
\* the session of a request that finds user 1 with a customer id and nothing
\* else stored
CheckedOut ==
    LET tables == [users |-> [u \in UserIds |->
                                IF u = 1
                                THEN [NewUser EXCEPT !.stripe_customer_id = 1]
                                ELSE NewUser],
                   subs |-> {}, payments |-> {}]
    IN  [committed |-> tables, pending |-> tables, integrity |-> FALSE,
         writes |-> <<>>, error |-> FALSE, syncs |-> <<>>]

InitReconciled ==
    /\ \E status \in SubscriptionStatuses :
          /\ stripe = [s \in SubIds |->
                         IF s = 1
                         THEN [status |-> status, customer |-> 1,
                               trial_start |-> 0, trial_end |-> TrialTicks,
                               cancel_at_period_end |-> FALSE]
                         ELSE NoSubscription]
          /\ users = [u \in UserIds |->
                        IF u = 1
                        THEN SyncUserSubscription(
                                 CheckedOut, 1,
                                 IF status \in {"active", "trialing"}
                                 THEN status ELSE "none").pending.users[1]
                        ELSE NewUser]
    /\ projects = {}
    /\ nextProjectId = 1
    /\ versions = {}
    /\ nextVersionId = 1
    /\ subs = {}
    /\ payments = {}
    /\ now = 0
    /\ inflight = [w \in Workers |-> Idle]
    /\ resp = Idle
    /\ warningLog = NoWarnings
    /\ accounts = {}

ReconciledNext ==
    \/ /\ resp = Idle
       /\ \/ \E event \in LifecycleEvents :
                \E gateway \in GatewayOutcomes(event) :
                   StripeWebhook("ok", event, gateway)
          \/ \E caller \in UserIds :
                \E listed \in ListOutcomes(users[caller].stripe_customer_id) :
                   Dashboard(caller, listed)
          \/ \E listed \in Listings : CheckAndExpireTrials(listed)
          \/ Tick
    \/ Respond

SpecReconciled == InitReconciled /\ [][ReconciledNext]_vars

(***************************************************************************)
(* C22.  Once a user has been reconciled without gateway error and the      *)
(* processor's subscriptions no longer change, the user's tier is pro       *)
(* exactly when the processor holds an active or trialing subscription of   *)
(* the user's customer.                                                     *)
(***************************************************************************)
C22_TierMatchesGateway ==
    users[1].subscription_tier = "pro"
        <=> (\E s \in SubIds : /\ stripe[s].customer = users[1].stripe_customer_id
                               /\ stripe[s].status \in {"active", "trialing"})

(***************************************************************************)
(* The design assistant.  An upstream call is described by the text chunks  *)
(* the model API delivers and by whether it then raises; available tells    *)
(* whether the service has a client.  An item a service call yields is a    *)
(* text or a dict; a frame of the event stream is the json of a dict or the *)
(* literal marker.                                                          *)
(***************************************************************************)
MaxChunks == 2
UpstreamTexts == {"vpc", "[DONE]"}

RECURSIVE TextsUpTo(_)
TextsUpTo(n) ==
    IF n = 0 THEN {<<>>}
    ELSE TextsUpTo(n - 1) \cup
         {Append(t, x) : t \in {y \in TextsUpTo(n - 1) : Len(y) = n - 1},
                         x \in UpstreamTexts}

Upstreams == [texts : TextsUpTo(MaxChunks), raises : BOOLEAN]

Text(t) == [kind |-> "text", value |-> t]
Dict(d) == [kind |-> "dict", value |-> d]

\* AIService.generate_design: what the generator yields, and whether it raises
AIGenerateDesign(available, upstream) ==
    IF ~available
    THEN [yielded |-> <<Dict([available |-> FALSE,
                             error |-> "AI service not configured"])>>,
          raised |-> FALSE]
    ELSE [yielded |-> [i \in 1..Len(upstream.texts) |-> Text(upstream.texts[i])]
                      \o (IF upstream.raises
                          THEN <<Dict([error |-> "upstream"])>> ELSE <<>>),
          raised |-> FALSE]

\* AIService.analyze_cost_optimization returns a dict; the route iterates over
\* it, which yields its keys in insertion order
AnalyzeCostOptimization(available, upstream) ==
    IF ~available
    THEN [yielded |-> <<Text("available"), Text("error")>>, raised |-> FALSE]
    ELSE IF upstream.raises
    THEN [yielded |-> <<Text("available"), Text("success"), Text("error")>>,
          raised |-> FALSE]
    ELSE [yielded |-> <<Text("available"), Text("success"), Text("analysis"),
                        Text("usage")>>,
          raised |-> FALSE]

\* f"data: {json.dumps(...)}\n\n" and "data: [DONE]\n\n"
JsonFrame(d) == [kind |-> "json", payload |-> d]
DoneFrame == [kind |-> "done"]

FrameOf(item) ==
    IF item.kind = "dict" THEN JsonFrame(item.value)
    ELSE JsonFrame([chunk |-> item.value])

\* generate() leaving out the marker
GenerateWithoutMarker(chunks) ==
    [i \in 1..Len(chunks.yielded) |-> FrameOf(chunks.yielded[i])]
        \o (IF chunks.raised THEN <<JsonFrame([error |-> "raised"])>> ELSE <<>>)

\* generate() of optimize_costs and of generate_design
Generate(chunks) ==
    [i \in 1..Len(chunks.yielded) |-> FrameOf(chunks.yielded[i])]
        \o (IF chunks.raised THEN <<JsonFrame([error |-> "raised"])>>
            ELSE <<DoneFrame>>)

\* the check both routes make before any request data is read
ProGate(op, req) ==
    IF req.caller \notin UserIds THEN Error(op, req, 404, "User not found")
    ELSE IF users[req.caller].subscription_tier # "pro"
            \/ users[req.caller].subscription_status \notin {"active", "trialing"}
    THEN Error(op, req, 403, "AI features require Pro subscription")
    ELSE [op |-> op, req |-> req, status |-> 200]

CostBodies ==
    { <<>>, [current_cost |-> 10], [resources |-> <<>>],
      [resources |-> <<1, 2>>, current_cost |-> 10] }

\* str.strip() on the prompts of DesignBodies
Strip(s) == IF s = "  " THEN "" ELSE IF s = " web " THEN "web" ELSE s

DesignBodies ==
    { <<>>, [cloud_provider |-> "aws"], [prompt |-> "  "],
      [prompt |-> " web "], [prompt |-> "web", cloud_provider |-> "gcp"],
      [prompt |-> "web", cloud_provider |-> "ibm"] }

ValidProviders == {"aws", "gcp", "azure", "digitalocean", "kubernetes"}

\* POST /api/ai/cost-optimization
OptimizeCosts(caller, data, available, upstream) ==
    LET op == "cost_optimization"
        req == [caller |-> caller, data |-> data, available |-> available,
                upstream |-> upstream]
    IN
    /\ resp' =
          IF ProGate(op, req).status # 200 THEN ProGate(op, req)
          ELSE IF data = <<>> \/ "resources" \notin DOMAIN data
          THEN Error(op, req, 400, "Resources required")
          ELSE IF Get(data, "resources", <<>>) = <<>>
          THEN Error(op, req, 400, "No resources to analyze")
          ELSE [op |-> op, req |-> req, status |-> 200,
                frames |-> Generate(AnalyzeCostOptimization(available, upstream))]
    /\ UnchangedProjects /\ UnchangedBilling /\ UNCHANGED <<now, inflight, warningLog, accounts>>

\* POST /api/ai/design
GenerateDesign(caller, data, available, upstream) ==
    LET op == "design"
        req == [caller |-> caller, data |-> data, available |-> available,
                upstream |-> upstream]
    IN
    /\ resp' =
          IF ProGate(op, req).status # 200 THEN ProGate(op, req)
          ELSE IF data = <<>> \/ "prompt" \notin DOMAIN data
          THEN Error(op, req, 400, "Prompt required")
          ELSE IF Strip(Get(data, "prompt", "")) = ""
          THEN Error(op, req, 400, "Prompt cannot be empty")
          ELSE IF Get(data, "cloud_provider", "aws") \notin ValidProviders
          THEN Error(op, req, 400, "Invalid cloud provider")
          ELSE [op |-> op, req |-> req, status |-> 200,
                frames |-> Generate(AIGenerateDesign(available, upstream))]
    /\ UnchangedProjects /\ UnchangedBilling /\ UNCHANGED <<now, inflight, warningLog, accounts>>

\* user 1 in any of the tiers and statuses the billing handlers leave
InitAssistant ==
    /\ \E tier \in Tiers, status \in UserStatuses :
          users = [u \in UserIds |->
                     IF u = 1
                     THEN [NewUser EXCEPT !.subscription_tier = tier,
                                          !.subscription_status = status]
                     ELSE NewUser]
    /\ projects = {}
    /\ nextProjectId = 1
    /\ versions = {}
    /\ nextVersionId = 1
    /\ subs = {}
    /\ payments = {}
    /\ stripe = [s \in SubIds |-> NoSubscription]
    /\ now = 0
    /\ inflight = [w \in Workers |-> Idle]
    /\ resp = Idle
    /\ warningLog = NoWarnings
    /\ accounts = {}

AssistantNext ==
    \/ /\ resp = Idle
       /\ \/ \E caller \in CallerIds, data \in CostBodies,
                available \in BOOLEAN, upstream \in Upstreams :
                OptimizeCosts(caller, data, available, upstream)
          \/ \E caller \in CallerIds, data \in DesignBodies,
                available \in BOOLEAN, upstream \in Upstreams :
                GenerateDesign(caller, data, available, upstream)
    \/ Respond

SpecAssistant == InitAssistant /\ [][AssistantNext]_vars

(***************************************************************************)
(* C23.  Every streaming response of the design and cost-optimization       *)
(* routes is a sequence of data frames ended by the marker frame            *)
(* 'data: [DONE]': the last frame is the marker and no other frame is,      *)
(* when the upstream call succeeds, when it raises and when the service     *)
(* has no client.                                                           *)
(***************************************************************************)
C23_Streaming(r) ==
    r.op \in {"design", "cost_optimization"} /\ r.status = 200

C23_EndsWithOneMarker ==
    C23_Streaming(resp) =>
        /\ Len(resp.frames) >= 1
        /\ resp.frames[Len(resp.frames)] = DoneFrame
        /\ \A i \in 1..(Len(resp.frames) - 1) : resp.frames[i].kind = "json"

\* a design stream whose upstream call raised after a chunk: chunk frame,
\* error frame, marker
C23_Witness ==
    /\ resp.op = "design" /\ resp.status = 200
    /\ resp.req.available /\ resp.req.upstream.raises
    /\ Len(resp.req.upstream.texts) >= 1
    /\ Len(resp.frames) = Len(resp.req.upstream.texts) + 2
    /\ resp.frames[Len(resp.frames)] = DoneFrame

(***************************************************************************)
(* C24.  payment_history is an append-only ledger keyed by the payment      *)
(* intent id: in every reachable state no two rows carry the same           *)
(* stripe_payment_intent_id, and no step, a payment event delivered again   *)
(* included, changes or removes a stored row.                               *)
(***************************************************************************)
C24_UniqueIntent ==
    \A r, q \in payments :
        r.stripe_payment_intent_id = q.stripe_payment_intent_id => r = q

C24_Step == \A r \in payments : r \in payments'

C24_AppendOnlyLedger == []C24_UniqueIntent /\ [][C24_Step]_vars

\* a payment event for an intent already in the ledger was processed and
\* refused by the unique constraint
C24_Witness ==
    /\ resp.op = "webhook" /\ resp.dispatched
    /\ resp.req.event.type \in {"payment_intent.succeeded",
                                "payment_intent.payment_failed"}
    /\ resp.units[1].error
    /\ \E r \in payments :
          /\ r.stripe_payment_intent_id = resp.req.event.object.id
          /\ "user_id" \in DOMAIN resp.req.event.object.metadata
          /\ r.user_id = resp.req.event.object.metadata.user_id

(***************************************************************************)
(* Authentication: register, login and the Google OAuth callback, on the    *)
(* identity columns of the users table.  A password is a sequence of        *)
(* characters.                                                              *)
(***************************************************************************)
RawEmails == {"a@x.io", " A@X.io ", "b@x.io"}

\* None, where the value would otherwise be a string or a hash
None == "None"
NoHash == [method |-> "None", of |-> <<>>]

\* the identity conversion in place of lower().strip()
LowerStripNot(email) == email

\* str.lower().strip() on RawEmails
LowerStrip(email) == IF email = " A@X.io " THEN "a@x.io" ELSE email

Passwords == {<<1, 2, 3>>, <<1, 2, 3, 4, 5, 6, 7, 8>>, <<8, 7, 6, 5, 4, 3, 2, 1>>}

\* werkzeug.security.generate_password_hash
GeneratePasswordHash(password) == [method |-> "pbkdf2", of |-> password]

\* werkzeug.security.check_password_hash; on None for the hash it raises
\* (AttributeError: 'NoneType' object has no attribute ...)
CheckPasswordHash(pwhash, password) ==
    IF pwhash = NoHash THEN "raise"
    ELSE IF pwhash = GeneratePasswordHash(password) THEN "true" ELSE "false"

\* User.check_password
CheckPassword(user, password) == CheckPasswordHash(user.password_hash, password)

NewAccount(id, email, name, password_hash, oauth_provider, oauth_id) ==
    [id |-> id, email |-> email, name |-> name, password_hash |-> password_hash,
     oauth_provider |-> oauth_provider, oauth_id |-> oauth_id]

\* User.query.filter_by(email=email).first()
ByEmail(email) == {a \in accounts : a.email = email}

NextAccountId == Cardinality(accounts) + 1

\* create_access_token / create_refresh_token (identity=str(user.id))
Tokens(user) == [access_token |-> user.id, refresh_token |-> user.id]

RegisterBodies ==
    {<<>>, [email |-> "a@x.io", password |-> <<1, 2, 3, 4, 5, 6, 7, 8>>]}
    \cup [name : {"n"}, email : RawEmails, password : Passwords]

LoginBodies ==
    {<<>>, [email |-> "a@x.io"]} \cup [email : RawEmails, password : Passwords]

UnchangedRest ==
    /\ UnchangedProjects /\ UnchangedBilling
    /\ UNCHANGED <<now, inflight, warningLog>>

\* POST /api/auth/register
Register(data) ==
    LET req == [data |-> data]
        email == LowerStrip(data.email)
        user == NewAccount(NextAccountId, email, data.name,
                           GeneratePasswordHash(data.password), None, NULL)
    IN
    /\ IF data = <<>> \/ ~({"name", "email", "password"} \subseteq DOMAIN data)
       THEN /\ resp' = Error("register", req, 400, "Missing required fields")
            /\ UNCHANGED accounts
       ELSE IF ByEmail(email) # {}
       THEN /\ resp' = Error("register", req, 400, "Email already registered")
            /\ UNCHANGED accounts
       ELSE IF Len(data.password) < 8
       THEN /\ resp' = Error("register", req, 400,
                             "Password must be at least 8 characters")
            /\ UNCHANGED accounts
       ELSE /\ accounts' = accounts \cup {user}
            /\ resp' = [op |-> "register", req |-> req, status |-> 201,
                        tokens |-> Tokens(user), user |-> user.id]
    /\ UnchangedRest

\* POST /api/auth/login
Login(data) ==
    LET req == [data |-> data]
        found == ByEmail(LowerStrip(data.email))
    IN
    /\ resp' =
          IF data = <<>> \/ ~({"email", "password"} \subseteq DOMAIN data)
          THEN Error("login", req, 400, "Missing email or password")
          ELSE IF found = {}
          THEN Error("login", req, 401, "Invalid email or password")
          ELSE LET user == CHOOSE a \in found : TRUE
                   checked == CheckPassword(user, data.password)
               IN  IF checked = "raise"
                   THEN Error("login", req, 500, "Login failed")
                   ELSE IF checked = "false"
                   THEN Error("login", req, 401, "Invalid email or password")
                   ELSE [op |-> "login", req |-> req, status |-> 200,
                         tokens |-> Tokens(user), user |-> user.id]
    /\ UNCHANGED accounts
    /\ UnchangedRest

\* what Google answers to the callback's two requests: the token exchange
\* fails, or userinfo comes with or without an email and an id
GoogleAnswers ==
    {[token |-> "error", email |-> None, id |-> NULL]}
    \cup [token : {"ok"}, email : RawEmails \cup {None}, id : {NULL, 7}]

Redirect(req, location) ==
    [op |-> "google_callback", req |-> req, status |-> 302, location |-> location]

\* GET /api/auth/google/callback
GoogleCallback(code, configured, google) ==
    LET req == [code |-> code, configured |-> configured, google |-> google]
        email == LowerStrip(google.email)
        found == ByEmail(email)
        created == NewAccount(NextAccountId, email, "n", NoHash, "google", google.id)
    IN
    /\ IF code = NULL
       THEN /\ resp' = Redirect(req, "/login?error=oauth_failed")
            /\ UNCHANGED accounts
       ELSE IF ~configured
       THEN /\ resp' = Redirect(req, "/login?error=oauth_not_configured")
            /\ UNCHANGED accounts
       ELSE IF google.token = "error"
       THEN /\ resp' = Redirect(req, "/login?error=oauth_token_failed")
            /\ UNCHANGED accounts
       ELSE IF google.email = None
       THEN \* email.split('@') is evaluated for the default of the name
            /\ resp' = Redirect(req, "/login?error=oauth_exception")
            /\ UNCHANGED accounts
       ELSE IF google.id = NULL
       THEN /\ resp' = Redirect(req, "/login?error=oauth_invalid_response")
            /\ UNCHANGED accounts
       ELSE IF found = {}
       THEN /\ accounts' = accounts \cup {created}
            /\ resp' = Redirect(req, "/dashboard") @@ [tokens |-> Tokens(created)]
       ELSE LET user == CHOOSE a \in found : TRUE
                linked == IF user.oauth_provider = None
                          THEN [user EXCEPT !.oauth_provider = "google",
                                            !.oauth_id = google.id]
                          ELSE user
            IN  /\ accounts' = (accounts \ {user}) \cup {linked}
                /\ resp' = Redirect(req, "/dashboard") @@ [tokens |-> Tokens(user)]
    /\ UnchangedRest

AuthNext ==
    \/ /\ resp = Idle
       /\ \/ \E data \in RegisterBodies : Register(data)
          \/ \E data \in LoginBodies : Login(data)
          \/ \E code \in {NULL, 1}, configured \in BOOLEAN, google \in GoogleAnswers :
                GoogleCallback(code, configured, google)
    \/ Respond

SpecAuth == Init /\ [][AuthNext]_vars

(***************************************************************************)
(* C25.  A register request carrying name, email and password whose email,  *)
(* lower-cased and trimmed, is the email of a stored user is answered 400   *)
(* 'Email already registered' and adds no user; and in every reachable      *)
(* state no two users have the same email.                                  *)
(***************************************************************************)
C25_LowerTrimmed(email) == IF email = " A@X.io " THEN "a@x.io" ELSE email

C25_Step ==
    (/\ resp = Idle /\ resp'.op = "register"
     /\ resp'.req.data # <<>>
     /\ {"name", "email", "password"} \subseteq DOMAIN resp'.req.data
     /\ \E a \in accounts :
           C25_LowerTrimmed(a.email) = C25_LowerTrimmed(resp'.req.data.email))
    => /\ resp'.status = 400
       /\ resp'.error = "Email already registered"
       /\ accounts' = accounts

C25_EmailsDiffer ==
    \A a, b \in accounts :
        C25_LowerTrimmed(a.email) = C25_LowerTrimmed(b.email) => a = b

C25_UniqueEmail == []C25_EmailsDiffer /\ [][C25_Step]_vars

\* a register request spelling a stored email differently was refused
C25_Witness ==
    /\ resp.op = "register" /\ resp.status = 400
    /\ resp.error = "Email already registered"
    /\ resp.req.data.email = " A@X.io "
    /\ \E a \in accounts : a.email = "a@x.io" /\ a.oauth_provider = "google"

(***************************************************************************)
(* C26.  A login request carrying an email and a password that does not     *)
(* authenticate an account (no user has the email, or the user's password   *)
(* credential is not that password, or the user has no password credential) *)
(* is answered 401 and carries no tokens.                                   *)
(***************************************************************************)
C26_Authenticates(data) ==
    \E a \in accounts :
        /\ a.email = C25_LowerTrimmed(data.email)
        /\ a.password_hash = GeneratePasswordHash(data.password)

C26_Step ==
    (/\ resp = Idle /\ resp'.op = "login"
     /\ resp'.req.data # <<>>
     /\ {"email", "password"} \subseteq DOMAIN resp'.req.data
     /\ ~C26_Authenticates(resp'.req.data))
    => /\ resp'.status = 401
       /\ "tokens" \notin DOMAIN resp'

C26_WrongPassword401 == [][C26_Step]_vars

(***************************************************************************)
(* After a deletion.  User 1 subscribed (subscription 1, with its row), the *)
(* processor canceled the subscription and the subscription-deleted event   *)
(* has just been processed.  From here subscription events for the same id  *)
(* keep arriving: late ones, retried ones, in any order.                    *)
(***************************************************************************)
\* the session of a request that finds user 1 subscribed: the row of
\* subscription 1 and the user's columns as the handlers left them
Subscribed(row_status, user_status, on_trial) ==
    LET tables ==
          [users |-> [u \in UserIds |->
                        IF u = 1
                        THEN [NewUser EXCEPT
                                !.stripe_customer_id = 1,
                                !.subscription_tier = "pro",
                                !.subscription_status = user_status,
                                !.is_on_trial = on_trial,
                                !.trial_start_date = IF on_trial THEN 0 ELSE NULL,
                                !.trial_end_date = IF on_trial THEN TrialTicks ELSE NULL]
                        ELSE NewUser],
           subs |-> {[user_id |-> 1, stripe_subscription_id |-> 1,
                      status |-> row_status,
                      current_period_start |-> 0,
                      current_period_end |-> TrialTicks,
                      cancel_at_period_end |-> FALSE]},
           payments |-> {}]
    IN  [committed |-> tables, pending |-> tables, integrity |-> FALSE,
         writes |-> <<>>, error |-> FALSE, syncs |-> <<>>]

InitDeleted ==
    /\ \E row_status \in {"trialing", "active"},
          user_status \in {"trialing", "active"}, on_trial \in BOOLEAN :
          LET s == HandleSubscriptionDeleted(
                       Subscribed(row_status, user_status, on_trial),
                       [id |-> 1])
          IN  /\ users = s.committed.users
              /\ subs = s.committed.subs
              /\ payments = s.committed.payments
    /\ stripe = [s \in SubIds |->
                   IF s = 1
                   THEN [status |-> "canceled", customer |-> 1,
                         trial_start |-> 0, trial_end |-> TrialTicks,
                         cancel_at_period_end |-> FALSE]
                   ELSE NoSubscription]
    /\ projects = {}
    /\ nextProjectId = 1
    /\ versions = {}
    /\ nextVersionId = 1
    /\ now = 0
    /\ inflight = [w \in Workers |-> Idle]
    /\ resp = Idle
    /\ warningLog = NoWarnings
    /\ accounts = {}

SubscriptionEvents ==
    {e \in LifecycleEvents : e.type # "checkout.session.completed"}

DeletedNext ==
    \/ /\ resp = Idle
       /\ \E event \in SubscriptionEvents : StripeWebhook("ok", event, "ok")
    \/ Respond

SpecDeleted == InitDeleted /\ [][DeletedNext]_vars

(***************************************************************************)
(* C27.  Once the subscription-deleted event for subscription S has been    *)
(* processed, subscription-created and subscription-updated events for S    *)
(* that are processed later leave the row of S and its owner at status      *)
(* 'canceled' and the owner's tier at free.                                 *)
(***************************************************************************)
C27_StaysCanceled ==
    /\ \A r \in subs : r.stripe_subscription_id = 1 => r.status = "canceled"
    /\ users[1].subscription_status = "canceled"
    /\ users[1].subscription_tier = "free"

(***************************************************************************)
(* Downgrade during a trial.  User 1 is pro on a trial that is still open,  *)
(* with the row of subscription 1.  The processor may end the subscription; *)
(* its events arrive, the dashboard reconciles, the clock runs, and the     *)
(* users create projects.                                                   *)
(***************************************************************************)
InitDowngrade ==
    /\ users = Subscribed("trialing", "trialing", TRUE).committed.users
    /\ subs = Subscribed("trialing", "trialing", TRUE).committed.subs
    /\ payments = {}
    /\ stripe = [s \in SubIds |->
                   IF s = 1
                   THEN [status |-> "trialing", customer |-> 1,
                         trial_start |-> 0, trial_end |-> TrialTicks,
                         cancel_at_period_end |-> FALSE]
                   ELSE NoSubscription]
    /\ projects = {}
    /\ nextProjectId = 1
    /\ versions = {}
    /\ nextVersionId = 1
    /\ now = 0
    /\ inflight = [w \in Workers |-> Idle]
    /\ resp = Idle
    /\ warningLog = NoWarnings
    /\ accounts = {}

DowngradeNext ==
    \/ /\ resp = Idle
       /\ \/ \E caller \in UserIds, data \in CreateBodies :
                CreateProject(caller, data, MaxLimitProjects)
          \/ \E event \in SubscriptionEvents : StripeWebhook("ok", event, "ok")
          \/ \E caller \in UserIds :
                \E listed \in ListOutcomes(users[caller].stripe_customer_id) :
                   Dashboard(caller, listed)
          \/ \E s \in SubIds, st \in SubscriptionStatuses : StripeUpdate(s, st)
          \/ Tick
    \/ Respond

SpecDowngrade == InitDowngrade /\ [][DowngradeNext]_vars

(***************************************************************************)
(* C28.  A create request of a user whose tier is free after their          *)
(* subscription ended (status canceled or inactive), whose trial window is  *)
(* still open and who owns FREE_TIER_PROJECT_LIMIT projects or more is      *)
(* rejected: it is not answered 201 and adds no project.                    *)
(***************************************************************************)
C28_Step ==
    (/\ resp = Idle /\ resp'.op = "create_project"
     /\ resp'.req.caller \in UserIds
     /\ LET u == users[resp'.req.caller]
        IN  /\ u.subscription_tier = "free"
            /\ u.subscription_status \in {"canceled", "inactive"}
            /\ u.is_on_trial /\ u.trial_end_date # NULL /\ now < u.trial_end_date
            /\ ProjectCount(resp'.req.caller) >= FREE_TIER_PROJECT_LIMIT)
    => /\ resp'.status # 201
       /\ projects' = projects

C28_DowngradedIsLimited == [][C28_Step]_vars

(***************************************************************************)
(* C29.  The count one run of the trial expiration sweep returns is the     *)
(* number of users whose trial flag that run leaves cleared in the          *)
(* committed rows, also when the reconciliation nested in some user's       *)
(* expiration fails at the processor and rolls the session back.            *)
(***************************************************************************)
C29_Cleared ==
    {u \in UserIds : users[u].is_on_trial /\ ~users'[u].is_on_trial}

C29_Step ==
    (resp = Idle /\ resp'.op = "check_and_expire_trials") =>
        resp'.count = Cardinality(C29_Cleared)

C29_CountIsCleared == [][C29_Step]_vars

(***************************************************************************)
(* C30.  Processing the same subscription-created, subscription-updated,    *)
(* subscription-deleted or payment event a second time right after the      *)
(* first leaves the users, subscriptions and payment_history rows as the    *)
(* first processing left them: the second unit of work changes no field and *)
(* commits no insert.                                                       *)
(***************************************************************************)
C30_Events ==
    {"customer.subscription.created", "customer.subscription.updated",
     "customer.subscription.deleted", "payment_intent.succeeded",
     "payment_intent.payment_failed"}

C30_Processed ==
    /\ resp.op = "webhook" /\ resp.dispatched
    /\ resp.req.event.type \in C30_Events

C30_Inserts(writes) ==
    {i \in DOMAIN writes : writes[i][3] = "INSERT"}

C30_IdempotentDelivery ==
    C30_Processed =>
        LET again == Dispatch(Session, resp.req.event, resp.req.gateway)
        IN  /\ again.committed = Tables
            /\ again.error \/ C30_Inserts(again.writes) = {}

C30_Witness ==
    /\ C30_Processed
    /\ resp.req.event.type = "customer.subscription.created"
    /\ ~resp.units[1].error
    /\ C30_Inserts(resp.units[1].writes) # {}
    /\ \E r \in subs : r.stripe_subscription_id = resp.req.event.object.id
    /\ Dispatch(Session, resp.req.event, resp.req.gateway).error

====
